---- MODULE Spec2Model ----
(***************************************************************************)
(* Login orchestration of the TCS NextStep status checker.                 *)
(*                                                                         *)
(* The repository holds two copies of the orchestrator:                    *)
(*   "modular"  - src/services/tcs_login.py  (tcs_login_and_screenshot,    *)
(*                handle_captcha, handle_otp_process, check_login_result)  *)
(*                with core/browser.py, core/utils.py, otp_retriever.py    *)
(*   "monolith" - main.py (the same functions inlined, plus main() and the *)
(*                SIGALRM watchdog), with gmail_otp_retriever.py and       *)
(*                tcs_jl_status_checker.py                                 *)
(* The variable impl selects the copy a run executes; it never changes.    *)
(*                                                                         *)
(* The program is one sequential procedure.  pc is its position; one       *)
(* action is one call into a collaborator (browser page, solver, mailbox)  *)
(* together with the code that reacts to its outcome.  A collaborator call *)
(* either returns one of its values or raises; both are drawn with \E.     *)
(*                                                                         *)
(* Every browser call made inside the attempt's try block may raise; this  *)
(* includes browser.close(), which the code calls inside that same try and *)
(* again, unguarded, inside the except handler.  Functions that catch      *)
(* every Exception themselves (take_screenshot, wait_for_element_safely,   *)
(* find_and_click_next_button, solve_captcha, get_otp_from_gmail,          *)
(* check_login_result, is_on_otp_page) only return values.                 *)
(*                                                                         *)
(* browser.close() is the session teardown: once it has been invoked the   *)
(* session no longer counts as live, whether or not the call then raises.  *)
(***************************************************************************)
EXTENDS Integers, Sequences, FiniteSets, TLC

----------------------------------------------------------------------------
(* Program constants *)

max_login_attempts == 3

max_retries == 2

OtpMinLen == 4

otp_max_attempts == 5

SCRIPT_TIMEOUT == 80

(* Bounds of the model *)

MaxOtpLen == 6

OtpAlphabet == {"7", "K"}

Impls == {"modular", "monolith"}

(* The text of a raised fault matters to handle_captcha only through       *)
(* whether it contains "navigation" or "timeout".                          *)
FaultKinds == {"timeout", "other"}

----------------------------------------------------------------------------
(* Mailbox results: get_otp_from_gmail returns (otp, body); otp is None or *)
(* a string.  Only otp is used by the callers.  handle_otp_process checks  *)
(* the length itself and does not rely on the retriever's own filter, so   *)
(* strings of every length from 0 to MaxOtpLen are drawn.                  *)

OtpStrings == UNION {[1..n -> OtpAlphabet] : n \in 0..MaxOtpLen}

NoneOtp == [some |-> FALSE, code |-> <<>>]

SomeOtp(c) == [some |-> TRUE, code |-> c]

OtpResults == {NoneOtp} \cup {SomeOtp(c) : c \in OtpStrings}

(* Python: not otp  (None or the empty string) *)
PyNot(o) == (~o.some) \/ Len(o.code) = 0

OtpInvalidShort(o) == PyNot(o) \/ Len(o.code) < OtpMinLen - 1

(* tcs_login.py:64  if not otp or len(otp) < 4 *)
OtpInvalid(o) == PyNot(o) \/ Len(o.code) < OtpMinLen

----------------------------------------------------------------------------
(* Code extraction of get_latest_otp  (otp_retriever.py:177-205, the same  *)
(* text in gmail_otp_retriever.py:164-192).  A text is a sequence of       *)
(* one-character strings; the regular expressions are evaluated as         *)
(* re.findall(pattern, email_body, re.IGNORECASE) evaluates them.          *)

UpperLetters ==
    <<"A", "B", "C", "D", "E", "F", "G", "H", "I", "J", "K", "L", "M", "N",
      "O", "P", "Q", "R", "S", "T", "U", "V", "W", "X", "Y", "Z">>

LowerLetters ==
    <<"a", "b", "c", "d", "e", "f", "g", "h", "i", "j", "k", "l", "m", "n",
      "o", "p", "q", "r", "s", "t", "u", "v", "w", "x", "y", "z">>

Digits == {"0", "1", "2", "3", "4", "5", "6", "7", "8", "9"}

LetterIndex(c) ==
    CHOOSE i \in 1..Len(UpperLetters) : UpperLetters[i] = c \/ LowerLetters[i] = c

IsUpper(c) == \E i \in 1..Len(UpperLetters) : UpperLetters[i] = c

IsLower(c) == \E i \in 1..Len(LowerLetters) : LowerLetters[i] = c

(* str.lower() on one character *)
ToLower(c) == IF IsUpper(c) THEN LowerLetters[LetterIndex(c)] ELSE c

ToUpper(c) == IF IsLower(c) THEN UpperLetters[LetterIndex(c)] ELSE c

LowerTextIdentity(t) == t

(* str.lower() *)
LowerText(t) == [i \in 1..Len(t) |-> ToLower(t[i])]

(* \s *)
IsSpace(c) == c \in {" ", "\t", "\n", "\r"}

(* \w, which decides \b *)
IsWord(c) == IsUpper(c) \/ IsLower(c) \/ c \in Digits \/ c = "_"

(* the character classes of the patterns, as written *)
InClassExact(cls, c) ==
    IF cls = "A-Za-z0-9" THEN IsUpper(c) \/ IsLower(c) \/ c \in Digits
    ELSE IF cls = "A-Z0-9" THEN IsUpper(c) \/ c \in Digits
    ELSE c \in Digits

(* re.IGNORECASE: a character matches if either of its cases does *)
InClass(cls, c) == InClassExact(cls, ToUpper(c)) \/ InClassExact(cls, ToLower(c))

(* otp_patterns: lit is the literal text before \s*, cls{n} the captured    *)
(* group, wb tells whether the group stands between two \b                *)
otp_patterns ==
    <<
      [lit |-> <<"O", "n", "e", " ", "T", "i", "m", "e", " ", "P", "a", "s", "s", "w", "o", "r", "d", " ", "(", "O", "T", "P", ")", " ", "f", "o", "r", " ", "l", "o", "g", "i", "n", ":">>,
       cls |-> "A-Za-z0-9", n |-> 7, wb |-> FALSE],
      [lit |-> <<"O", "T", "P", " ", "f", "o", "r", " ", "l", "o", "g", "i", "n", ":">>,
       cls |-> "A-Za-z0-9", n |-> 7, wb |-> FALSE],
      [lit |-> <<"O", "T", "P", ":">>,
       cls |-> "A-Za-z0-9", n |-> 7, wb |-> FALSE],
      [lit |-> <<>>,
       cls |-> "A-Za-z0-9", n |-> 7, wb |-> TRUE],
      [lit |-> <<>>,
       cls |-> "A-Z0-9", n |-> 6, wb |-> TRUE],
      [lit |-> <<>>,
       cls |-> "\\d", n |-> 6, wb |-> TRUE],
      [lit |-> <<>>,
       cls |-> "\\d", n |-> 4, wb |-> TRUE]
    >>

(* the words that disqualify a match *)
false_positives ==
    << <<"h", "t", "t", "p">>,
       <<"w", "w", "w">>,
       <<"c", "o", "m">>,
       <<"t", "c", "s">>,
       <<"g", "m", "a", "i", "l">> >>

(* \b before position i of t (i in 1..Len(t)+1) *)
WordBoundary(t, i) ==
    LET w(k) == k \in 1..Len(t) /\ IsWord(t[k])
    IN  w(i - 1) # w(i)

RECURSIVE SkipSpaces(_, _)
(* \s* : the first position from i on that does not hold white space *)
SkipSpaces(t, i) ==
    IF i <= Len(t) /\ IsSpace(t[i]) THEN SkipSpaces(t, i + 1) ELSE i

(* the pattern matches at position i: 0, or the position of the group *)
GroupAt(p, t, i) ==
    LET litOk == /\ i + Len(p.lit) - 1 <= Len(t)
                 /\ \A k \in 1..Len(p.lit) : ToLower(t[i + k - 1]) = ToLower(p.lit[k])
        g == IF Len(p.lit) > 0 /\ litOk THEN SkipSpaces(t, i + Len(p.lit)) ELSE i
    IN  IF /\ litOk
           /\ g + p.n - 1 <= Len(t)
           /\ \A k \in g..(g + p.n - 1) : InClass(p.cls, t[k])
           /\ p.wb => (WordBoundary(t, g) /\ WordBoundary(t, g + p.n))
        THEN g
        ELSE 0

RECURSIVE FindAll(_, _, _)
(* re.findall: the groups of the leftmost non-overlapping matches from i on *)
FindAll(p, t, i) ==
    IF i > Len(t) THEN <<>>
    ELSE LET g == GroupAt(p, t, i)
         IN  IF g = 0 THEN FindAll(p, t, i + 1)
             ELSE <<SubSeq(t, g, g + p.n - 1)>> \o FindAll(p, t, g + p.n)

(* word in match.lower() *)
Contains(t, w) ==
    \E k \in 1..(Len(t) - Len(w) + 1) : SubSeq(t, k, k + Len(w) - 1) = w

MinMatchLen == 4

AcceptedLongOnly(m) ==
    /\ Len(m) > MinMatchLen
    /\ \A j \in 1..Len(false_positives) : ~Contains(LowerText(m), false_positives[j])

(* len(match) >= 4 and not any(word in match.lower() for word in [...]) *)
Accepted(m) ==
    /\ Len(m) >= MinMatchLen
    /\ \A j \in 1..Len(false_positives) : ~Contains(LowerText(m), false_positives[j])

RECURSIVE Strip(_)
(* match.strip() *)
Strip(m) ==
    IF m = <<>> THEN m
    ELSE IF IsSpace(m[1]) THEN Strip(Tail(m))
    ELSE IF IsSpace(m[Len(m)]) THEN Strip(SubSeq(m, 1, Len(m) - 1))
    ELSE m

RECURSIVE FirstAccepted(_)
(* for match in matches: the first one that passes the filter, or <<>> *)
FirstAccepted(ms) ==
    IF ms = <<>> THEN <<>>
    ELSE IF Accepted(ms[1]) THEN ms[1]
    ELSE FirstAccepted(Tail(ms))

RECURSIVE ExtractOtp(_, _)
(* for pattern in otp_patterns (from the k-th on): return the first accepted *)
(* match, stripped; None when no pattern yields one                          *)
ExtractOtp(t, k) ==
    IF k > Len(otp_patterns) THEN NoneOtp
    ELSE LET m == FirstAccepted(FindAll(otp_patterns[k], t, 1))
         IN  IF m # <<>> THEN SomeOtp(Strip(m)) ELSE ExtractOtp(t, k + 1)

(* Email bodies of the extraction runs: 1 to MaxFragments pieces in a row *)
MaxFragments == 2

Fragments ==
    { <<"O", "T", "P", " ", "f", "o", "r", " ", "l", "o", "g", "i", "n", ":", " ">>,
      <<"A", "B", "1", "2", "3", "4", "5">>,
      <<"c", "a", "l", "l", " ", "u", "s", " ", "a", "t", " ">>,
      <<"1", "8", "0", "0">>,
      <<"1", "8", "0">>,
      <<"O", "n", "e", " ", "T", "i", "m", "e", " ", "P", "a", "s", "s", "w", "o", "r", "d", " ", "(", "O", "T", "P", ")", " ", "f", "o", "r", " ", "l", "o", "g", "i", "n", ":", " ">>,
      <<"o", "t", "p", ":", " ">>,
      <<"t", "c", "s", "1", "2", "3", "4">>,
      <<"T", "C", "S", "1", "2", "3", "4", " ">>,
      <<"X", "Y", "9", "8", "7", "6">>,
      <<" ">> }

RECURSIVE BodiesOf(_)
BodiesOf(n) ==
    IF n = 0 THEN {<<>>}
    ELSE {b \o f : b \in BodiesOf(n - 1), f \in Fragments}

Bodies == UNION {BodiesOf(n) : n \in 1..MaxFragments}

----------------------------------------------------------------------------
(* find_and_click_next_button  (utils.py:22-75, main.py:158-211) *)

(* next_button_selectors *)
NumSelectors == 5

(* 'button:contains("Next")' is not a selector the browser accepts *)
ContainsSelector == 4

(* What one selector meets: no visible enabled element, one that takes the *)
(* click and lets the 2 s timer run, a fault of is_visible()/is_enabled(), *)
(* one whose click raises, or one that takes the click after which         *)
(* page.wait_for_timeout raises (utils.py:41 is inside the try).           *)
SelectorStates ==
    {"absent", "clickable", "probe_raises", "click_raises", "settle_raises"}

(* What the script fallback meets: no visible enabled button with text or  *)
(* value "next", one that it clicks, a fault of page.evaluate, or one that *)
(* it clicks after which page.wait_for_timeout raises (utils.py:66)        *)
ScriptStates == {"absent", "clickable", "raises", "settle_raises"}

(* the calls made on a page after one of its timers has raised: the timer  *)
(* is a plain sleep that a navigation does not interrupt, it raises when   *)
(* the page or the browser is gone, and then every later call raises too   *)
GoneAfter(f, j) ==
    \A i \in 1..NumSelectors :
        f[i] = "settle_raises" =>
            /\ \A k \in (i + 1)..NumSelectors : f[k] = "probe_raises"
            /\ j = "raises"

NextPages ==
    {[sel |-> f, js |-> j] :
        <<f, j>> \in {c \in [1..NumSelectors -> SelectorStates] \X ScriptStates :
                         /\ c[1][ContainsSelector] = "probe_raises"
                         /\ GoneAfter(c[1], c[2])}}

(* the value of next_page outside a run of the helper *)
NoPage == [sel |-> [i \in 1..NumSelectors |-> "absent"], js |-> "absent"]

(* ret: the returned value; clicks: clicks performed; by: the strategy that *)
(* clicked last (a selector's index, NumSelectors + 1 for the script, 0 for *)
(* none); tried: strategies tried, the script counting as one; shot: the    *)
(* error screenshot was taken                                               *)
NoResult == [ret |-> FALSE, clicks |-> 0, by |-> 0, tried |-> 0, shot |-> FALSE]

RECURSIVE FirstClickable(_, _)
(* the first selector, from i on, whose element is visible and enabled,    *)
(* takes the click and lets the timer run; 0 if there is none              *)
FirstClickable(pg, i) ==
    IF i > NumSelectors THEN 0
    ELSE IF pg.sel[i] = "clickable" THEN i
    ELSE FirstClickable(pg, i + 1)

(* the script fallback taken to click whatever the page holds *)
ScriptFallbackAlways(pg, c, b) ==
    [ret |-> TRUE, clicks |-> c + 1, by |-> NumSelectors + 1,
     tried |-> NumSelectors + 1, shot |-> FALSE]

(* try: clicked = page.evaluate(...); if clicked: wait_for_timeout; return *)
(* True / except: log; then take_screenshot and return False               *)
(* (utils.py:48-75), after c clicks the last of which was made by b        *)
ScriptFallback(pg, c, b) ==
    IF pg.js = "clickable"
    THEN [ret |-> TRUE, clicks |-> c + 1, by |-> NumSelectors + 1,
          tried |-> NumSelectors + 1, shot |-> FALSE]
    ELSE IF pg.js = "settle_raises"
    THEN [ret |-> FALSE, clicks |-> c + 1, by |-> NumSelectors + 1,
          tried |-> NumSelectors + 1, shot |-> TRUE]
    ELSE [ret |-> FALSE, clicks |-> c, by |-> b,
          tried |-> NumSelectors + 1, shot |-> TRUE]

RECURSIVE TrySelectors(_, _, _, _)
(* for selector in next_button_selectors (utils.py:36-45), from the i-th   *)
(* on: a fault of the probe, of the click or of the timer is caught and    *)
(* the loop goes on to the next selector                                   *)
TrySelectors(pg, i, c, b) ==
    IF i > NumSelectors THEN ScriptFallback(pg, c, b)
    ELSE IF pg.sel[i] = "clickable"
    THEN [ret |-> TRUE, clicks |-> c + 1, by |-> i, tried |-> i, shot |-> FALSE]
    ELSE IF pg.sel[i] = "settle_raises"
    THEN TrySelectors(pg, i + 1, c + 1, i)
    ELSE TrySelectors(pg, i + 1, c, b)

find_and_click_unchecked(pg) ==
    [ret |-> TRUE, clicks |-> 1, by |-> 1, tried |-> 1, shot |-> FALSE]

find_and_click_next_button(pg) == TrySelectors(pg, 1, 0, 0)

----------------------------------------------------------------------------
(* The page after the Next click, as handle_captcha probes it              *)
(* (tcs_login.py:193-211 is_on_otp_page, 313-322 should_retry_with_refresh) *)

(* div.error-message with the text "session", "expired" or "invalid"       *)
(* visible, or page.url == 'about:blank'                                   *)
RefreshSignals == {"session", "expired", "invalid", "blank"}

(* on_otp: the OTP header or input#loginOtp is seen (a fault of the probe  *)
(* is caught by is_on_otp_page and counts as not seen)                     *)
PageStates == [on_otp : BOOLEAN, signals : SUBSET RefreshSignals]

NoPageState == [on_otp |-> FALSE, signals |-> {}]

is_on_otp_page_unless_refresh(ps) == ps.on_otp /\ ps.signals = {}

(* if otp_header.is_visible(): return True; return otp_input.is_visible() *)
is_on_otp_page(ps) == ps.on_otp

(* return any(error_conditions) *)
should_retry_with_refresh(ps) == ps.signals # {}

----------------------------------------------------------------------------
(* check_login_result  (tcs_login.py:124-191, the same text in main.py:330-397) *)

(* len(error_selectors), len(success_indicators) *)
NumErrorSelectors == 12

NumSuccessIndicators == 5

(* Bound: on a drawn page at most MaxShown selectors of the two lists meet *)
(* something other than an element that is not visible                     *)
MaxShown == 2

(* page.wait_for_load_state('networkidle', timeout=timeout): the page went *)
(* idle, the wait timed out, or it raised another fault                    *)
WaitOutcomes == {"idle", "timeout", "fault"}

(* element.inner_text() of a visible error element *)
ErrorTexts ==
    { <<>>,
      <<" ">>,
      <<"I", "n", "v", "a", "l", "i", "d", " ", "O", "T", "P", "\n">> }

(* What the scan meets at a selector: vis is "hidden" (is_visible() is     *)
(* False), "visible", or "raises" (is_visible() or inner_text() raises)    *)
HiddenElement == [vis |-> "hidden", text |-> <<>>]

ShownErrorElements ==
    {[vis |-> "raises", text |-> <<>>]}
        \cup {[vis |-> "visible", text |-> t] : t \in ErrorTexts}

ShownSuccessElements ==
    {[vis |-> "raises", text |-> <<>>], [vis |-> "visible", text |-> <<>>]}

(* the selectors of both lists, error selectors first *)
ScanPositions == 1..(NumErrorSelectors + NumSuccessIndicators)

ShownAt(S) ==
    {f \in [S -> ShownErrorElements \cup ShownSuccessElements] :
        \A i \in S : IF i <= NumErrorSelectors
                     THEN f[i] \in ShownErrorElements
                     ELSE f[i] \in ShownSuccessElements}

(* which selectors meet something, and what *)
ShownChoices ==
    UNION {ShownAt(S) : S \in {T \in SUBSET ScanPositions :
                                  Cardinality(T) <= MaxShown}}

(* the page in which the selectors of DOMAIN f meet what f says *)
PageOf(w, f) ==
    [wait |-> w,
     err |-> [i \in 1..NumErrorSelectors |->
                 IF i \in DOMAIN f THEN f[i] ELSE HiddenElement],
     ok |-> [j \in 1..NumSuccessIndicators |->
                 IF (NumErrorSelectors + j) \in DOMAIN f
                 THEN f[NumErrorSelectors + j] ELSE HiddenElement]]

LoginPages == {PageOf(w, f) : w \in WaitOutcomes, f \in ShownChoices}

(* the value of login_page outside a run of the classifier *)
NoLoginPage ==
    [wait |-> "idle",
     err |-> [i \in 1..NumErrorSelectors |-> HiddenElement],
     ok |-> [j \in 1..NumSuccessIndicators |-> HiddenElement]]

(* ret: the returned value; scans: selectors probed; by: the selector that *)
(* decided (error selectors 1..12, success indicators 13..17, 0 for none)  *)
NoLoginResult == [ret |-> "unset", scans |-> 0, by |-> 0]

ErrorShownAnyText(e) == e.vis = "visible" /\ e.text # <<>>

(* if element.is_visible(): error_text = element.inner_text().strip();     *)
(* if error_text: ... return False                                         *)
ErrorShown(e) == e.vis = "visible" /\ Strip(e.text) # <<>>

RECURSIVE FirstError(_, _)
(* for selector in error_selectors: the first one, from i on, that shows an *)
(* error; a fault of a check is caught and the scan goes on; 0 if none      *)
FirstError(pg, i) ==
    IF i > NumErrorSelectors THEN 0
    ELSE IF ErrorShown(pg.err[i]) THEN i
    ELSE FirstError(pg, i + 1)

RECURSIVE FirstSuccess(_, _)
(* for selector in success_indicators: the first one, from j on, that is   *)
(* visible; 0 if none                                                      *)
FirstSuccess(pg, j) ==
    IF j > NumSuccessIndicators THEN 0
    ELSE IF pg.ok[j].vis = "visible" THEN j
    ELSE FirstSuccess(pg, j + 1)

(* check_login_result(page): False, True or None *)
check_login(pg) ==
    LET e == FirstError(pg, 1)
        k == FirstSuccess(pg, 1)
    IN  IF pg.wait # "idle"
        THEN [ret |-> "None", scans |-> 0, by |-> 0]
        ELSE IF e > 0
        THEN [ret |-> "False", scans |-> e, by |-> e]
        ELSE IF k > 0
        THEN [ret |-> "True", scans |-> NumErrorSelectors + k,
              by |-> NumErrorSelectors + k]
        ELSE [ret |-> "None",
              scans |-> NumErrorSelectors + NumSuccessIndicators, by |-> 0]

(* what the orchestrator can see of one call: the outcome of the wait and  *)
(* the result, over every page                                             *)
ClassifierOutcomes ==
    {[wait |-> pg.wait, res |-> check_login(pg)] : pg \in LoginPages}

----------------------------------------------------------------------------
VARIABLES
    impl,             \* which copy of the orchestrator runs
    pc,               \* position in the run
    attempt,          \* tcs_login_and_screenshot: attempt
    browser,          \* tcs_login_and_screenshot: browser (0 = None/unbound, n = session of attempt n)
    live,             \* sessions launched and not yet torn down
    result,           \* value returned by tcs_login_and_screenshot
    closeThen,        \* what follows the pending browser.close(): "continue" or "return"
    retval,           \* value of the pending return
    cAttempt,         \* handle_captcha: attempt
    captcha_success,  \* handle_captcha result, first component
    needs_refresh,    \* handle_captcha result, second component
    solverCalls,      \* calls of solve_captcha made by this handle_captcha
    nextClicks,       \* clicks on a Next control made by this handle_captcha
    page_state,       \* what the page shows once it has settled after the Next click
    capFault,         \* kind of the fault raised by the last step of handle_captcha
    helper_ret,       \* value returned by the last helper handle_captcha called
    selector_wait,    \* what page.wait_for_selector met in wait_for_element_safely
    next_page,        \* what find_and_click_next_button meets on the page
    next_ret,         \* what find_and_click_next_button did and returned
    otp,              \* handle_otp_process: otp
    otpTry,           \* main.py handle_otp_process: attempt of the retrieval loop
    typed,            \* characters typed into input#loginOtp in this OTP cycle
    otpClicked,       \* verifyLoginOTPBtn was clicked in this OTP cycle
    otp_result,       \* value returned by handle_otp_process
    enabled_wait,     \* outcome of the wait for input#loginOtp to be enabled
    direct_click,     \* outcome of login_button.click(): "unset", "clicked" or "failed"
    scriptClicks,     \* script clicks on verifyLoginOTPBtn run in this OTP cycle
    mailOpen,         \* an IMAP connection opened by the retrieval call is open
    mailPolls,        \* get_latest_otp: attempt (re-searches done)
    mailCalls,        \* calls of get_otp_from_gmail made in this OTP cycle
    email_body,       \* get_latest_otp: email_body (used by the extraction runs)
    mailSearches,     \* self.mail.search calls made by this get_latest_otp
    own_unseen,       \* the code email issued for this attempt's login is not yet seen
    stale_unseen,     \* a code email issued for an earlier attempt of this run is unseen
    otp_from,         \* whose email the code came from: "none", "own", "earlier", "other"
    login_status,     \* value returned by check_login_result
    login_page,       \* what check_login_result meets on the page (classifier runs)
    login_wait,       \* outcome of the network-idle wait of check_login_result
    login_ret,        \* what check_login_result probed and returned
    screenshots,      \* files in the screenshots directory (notification runs)
    image_path,       \* send_email: image_path
    sent,             \* smtp.send_message(msg) has returned
    cleanups,         \* calls of cleanup_screenshots made by this send_email
    send_fault,       \* where send_email gave up: "none" or the failing step
    send_ret,         \* value returned by send_email
    email_ids,        \* get_latest_otp: number of ids the search returned (1 is the oldest)
    sender_given,     \* get_latest_otp: a sender filter was passed
    subject_given,    \* get_latest_otp: a subject filter was passed
    examined,         \* get_latest_otp: ids fetched so far
    email_id,         \* get_latest_otp: the id fetched last, 0 before the first fetch
    scan_email,       \* get_latest_otp: the email fetched last
    scan_ret,         \* get_latest_otp: "unset", "code", "absent_with_body" or "absent"
    today,            \* scheduler: datetime.now().date() as [leap, month, day]
    now,              \* scheduler: datetime.now().time() in minutes after midnight
    next_run,         \* scheduler: what get_next_run returned, as [date, time]
    sched_ret,        \* scheduler: "unset", "returned" or "raises"
    proc,             \* "running" or "exited" (process of main.py)
    exitCode,         \* process exit code, -1 while running
    exitBy,           \* "none", "main" (sys.exit), "interrupt" (sys.exit(130)) or "watchdog" (os._exit)
    alarm,            \* the SIGALRM watchdog is armed
    verdict,          \* last branch decision of the orchestrator
    verdictAt,        \* attempt in which verdict was taken
    faultSrc          \* origin of the first fault raised to the attempt boundary in this attempt

orch == <<pc, attempt, browser, live, result, closeThen, retval>>
orch_locals == <<attempt, browser, live, result, closeThen, retval>>
cap == <<cAttempt, captcha_success, needs_refresh, solverCalls, nextClicks>>
capg == <<page_state, capFault, helper_ret, selector_wait>>
btn == <<next_page, next_ret>>
otpg == <<enabled_wait, direct_click, scriptClicks>>
otpv == <<otp, otpTry, typed, otpClicked, otp_result, otpg>>
inbox == <<own_unseen, stale_unseen, otp_from>>
mail == <<mailOpen, mailPolls, mailCalls, email_body, mailSearches, inbox>>
cls == <<login_page, login_wait, login_ret>>
notif == <<screenshots, image_path, sent, cleanups, send_fault, send_ret>>
scan == <<email_ids, sender_given, subject_given, examined, email_id, scan_email, scan_ret>>
sched == <<today, now, next_run, sched_ret>>
rest == <<scan, sched>>
aux == <<btn, cls, notif, rest>>
mainv == <<proc, exitCode, exitBy, alarm>>
ghost == <<verdict, verdictAt, faultSrc>>

vars == <<impl, orch, cap, capg, aux, otpv, mail, login_status, mainv, ghost>>

Running == proc = "running"

(* an email not yet fetched *)
NoEmail == [fetch |-> "unset", from_ok |-> FALSE, subject_ok |-> FALSE, code |-> FALSE]

(* get_latest_otp is not running *)
ScanIdle ==
    /\ email_ids = 0
    /\ sender_given = FALSE
    /\ subject_given = FALSE
    /\ examined = 0
    /\ email_id = 0
    /\ scan_email = NoEmail
    /\ scan_ret = "unset"

NoDate == [leap |-> FALSE, month |-> 0, day |-> 0]

NoRun == [date |-> NoDate, time |-> 0]

(* the scheduler is not running *)
SchedIdle ==
    /\ today = NoDate
    /\ now = 0
    /\ next_run = NoRun
    /\ sched_ret = "unset"

RestIdle == ScanIdle /\ SchedIdle

Modular == impl = "modular"

Monolith == impl = "monolith"

----------------------------------------------------------------------------
Init ==
    /\ impl \in Impls
    /\ pc = IF impl = "modular" THEN "sync_playwright" ELSE "main_arm"
    /\ attempt = 0
    /\ browser = 0
    /\ live = {}
    /\ result = "none"
    /\ closeThen = "none"
    /\ retval = "none"
    /\ cAttempt = 0
    /\ captcha_success = FALSE
    /\ needs_refresh = FALSE
    /\ solverCalls = 0
    /\ nextClicks = 0
    /\ page_state = NoPageState
    /\ capFault = "none"
    /\ helper_ret = "unset"
    /\ selector_wait = "unset"
    /\ next_page = NoPage
    /\ next_ret = NoResult
    /\ otp = NoneOtp
    /\ otpTry = 0
    /\ typed = <<>>
    /\ otpClicked = FALSE
    /\ otp_result = "unset"
    /\ mailOpen = FALSE
    /\ mailPolls = 0
    /\ mailCalls = 0
    /\ email_body = <<>>
    /\ login_status = "unset"
    /\ proc = "running"
    /\ exitCode = -1
    /\ exitBy = "none"
    /\ alarm = FALSE
    /\ verdict = "none"
    /\ verdictAt = 0
    /\ faultSrc = "none"
    /\ login_page = NoLoginPage
    /\ login_wait = "unset"
    /\ login_ret = NoLoginResult
    /\ screenshots = {}
    /\ image_path = "None"
    /\ sent = FALSE
    /\ cleanups = 0
    /\ send_fault = "none"
    /\ send_ret = "unset"
    /\ RestIdle
    /\ enabled_wait = "unset"
    /\ direct_click = "unset"
    /\ scriptClicks = 0
    /\ mailSearches = 0
    /\ own_unseen = FALSE
    /\ stale_unseen = FALSE
    /\ otp_from = "none"

----------------------------------------------------------------------------
(* Session teardown *)

BrowserCloseLeak(l, b) == l

(* browser.close(): the session b is torn down *)
BrowserClose(l, b) == l \ {b}

LoopCondOffByOne == attempt <= max_login_attempts

(* tcs_login.py:330  while attempt < max_login_attempts *)
LoopCond == attempt < max_login_attempts

(* A fault propagates to   except Exception   of the attempt (tcs_login.py:428) *)
RaiseToAttempt(src) ==
    /\ pc' = "except"
    /\ faultSrc' = IF faultSrc = "none" THEN src ELSE faultSrc

(* browser.close() followed by continue or by return rv *)
CloseAnd(then, rv, v) ==
    /\ pc' = "close"
    /\ closeThen' = then
    /\ retval' = rv
    /\ verdict' = v
    /\ verdictAt' = attempt

----------------------------------------------------------------------------
(* tcs_login_and_screenshot *)

(* with sync_playwright() as p:  tcs_login.py:328 (once), main.py:539 (per attempt) *)
sync_playwright ==
    /\ Running
    /\ pc = "sync_playwright"
    /\ \/ pc' = (IF Modular THEN "loop" ELSE "launch")
       \/ pc' = "escaped"
    /\ UNCHANGED <<impl, aux, capg, attempt, browser, live, result, closeThen, retval,
                   cap, otpv, mail, login_status, mainv, ghost>>

(* while attempt < max_login_attempts: attempt += 1; browser = None *)
LoopHead ==
    /\ Running
    /\ pc = "loop"
    /\ IF LoopCond
       THEN /\ attempt' = attempt + 1
            /\ browser' = (IF Modular THEN 0 ELSE browser)
            /\ pc' = (IF Modular THEN "launch" ELSE "sync_playwright")
            /\ faultSrc' = "none"
            /\ UNCHANGED <<result, verdict, verdictAt>>
       ELSE /\ pc' = "returned"
            /\ result' = "False"
            /\ UNCHANGED <<attempt, browser, faultSrc, verdict, verdictAt>>
    \* the values of the previous iteration are dead from here on
    /\ closeThen' = "none"
    /\ retval' = "none"
    /\ cAttempt' = 0
    /\ captcha_success' = FALSE
    /\ needs_refresh' = FALSE
    /\ solverCalls' = 0
    /\ nextClicks' = 0
    /\ otp_result' = "unset"
    /\ login_status' = "unset"
    /\ typed' = <<>>
    /\ UNCHANGED <<impl, aux, capg, live, otp, otpTry, otpClicked, otpg, mail, mainv>>

(* chromium.launch(...)  browser.py:30, main.py:553 *)
chromium_launch ==
    /\ Running
    /\ pc = "launch"
    /\ \/ /\ live' = live \cup {attempt}
          /\ browser' = (IF Monolith THEN attempt ELSE browser)
          /\ pc' = "new_context"
          /\ UNCHANGED faultSrc
       \/ /\ RaiseToAttempt("launch")
          /\ UNCHANGED <<live, browser>>
    /\ UNCHANGED <<impl, aux, capg, attempt, result, closeThen, retval, cap, otpv, mail,
                   login_status, mainv, verdict, verdictAt>>

(* browser.new_context(...), context.new_page(); in browser.py a fault here *)
(* closes the browser and is raised again (browser.py:54-58)                *)
new_context ==
    /\ Running
    /\ pc = "new_context"
    /\ \/ /\ browser' = attempt
          /\ pc' = "goto"
          /\ UNCHANGED <<live, faultSrc>>
       \/ /\ RaiseToAttempt("launch")
          /\ live' = (IF Modular THEN BrowserClose(live, attempt) ELSE live)
          /\ UNCHANGED browser
    /\ UNCHANGED <<impl, aux, capg, attempt, result, closeThen, retval, cap, otpv, mail,
                   login_status, mainv, verdict, verdictAt>>

(* page.goto(...)  tcs_login.py:340-348 *)
page_goto ==
    /\ Running
    /\ pc = "goto"
    /\ \/ /\ pc' = "wait_login"
          /\ UNCHANGED <<closeThen, retval, verdict, verdictAt>>
       \/ CloseAnd("continue", "none", "NavFail")
    /\ UNCHANGED <<impl, aux, capg, attempt, browser, live, result, cap, otpv, mail,
                   login_status, mainv, faultSrc>>

(* wait_for_element_safely(page, login_button_selector)  tcs_login.py:352-357 *)
wait_login_button ==
    /\ Running
    /\ pc = "wait_login"
    /\ \/ /\ pc' = "click_login"
          /\ UNCHANGED <<closeThen, retval, verdict, verdictAt>>
       \/ CloseAnd("continue", "none", "NoLoginButton")
    /\ UNCHANGED <<impl, aux, capg, attempt, browser, live, result, cap, otpv, mail,
                   login_status, mainv, faultSrc>>

(* page.click(login_button_selector)  tcs_login.py:360 *)
click_login ==
    /\ Running
    /\ pc = "click_login"
    /\ \/ /\ pc' = "wait_email"
          /\ UNCHANGED faultSrc
       \/ RaiseToAttempt("page")
    /\ UNCHANGED <<impl, aux, capg, attempt, browser, live, result, closeThen, retval, cap,
                   otpv, mail, login_status, mainv, verdict, verdictAt>>

(* wait_for_element_safely(page, email_selector)  tcs_login.py:364-369 *)
wait_email_field ==
    /\ Running
    /\ pc = "wait_email"
    /\ \/ /\ pc' = "fill_email"
          /\ UNCHANGED <<closeThen, retval, verdict, verdictAt>>
       \/ CloseAnd("continue", "none", "NoEmailField")
    /\ UNCHANGED <<impl, aux, capg, attempt, browser, live, result, cap, otpv, mail,
                   login_status, mainv, faultSrc>>

(* email_input.fill(''); fill(TCS_EMAIL); then handle_captcha(page) is entered *)
fill_email ==
    /\ Running
    /\ pc = "fill_email"
    /\ \/ /\ pc' = "cap_loop"
          /\ cAttempt' = 0
          /\ captcha_success' = FALSE
          /\ needs_refresh' = FALSE
          /\ solverCalls' = 0
          /\ nextClicks' = 0
          /\ UNCHANGED faultSrc
       \/ /\ RaiseToAttempt("page")
          /\ UNCHANGED cap
    /\ UNCHANGED <<impl, aux, capg, attempt, browser, live, result, closeThen, retval,
                   otpv, mail, login_status, mainv, verdict, verdictAt>>

----------------------------------------------------------------------------
(* handle_captcha  (tcs_login.py:213-311, main.py:419-517) *)

CapUnch == UNCHANGED <<impl, aux, attempt, browser, live, result, closeThen, retval,
                       otpv, mail, login_status, mainv, ghost>>

(* return success, needs_refresh *)
AdvancedWithRefresh == [success |-> TRUE, needs_refresh |-> TRUE]

(* return True, False *)
Advanced == [success |-> TRUE, needs_refresh |-> FALSE]

(* return False, True *)
RefreshNeeded == [success |-> FALSE, needs_refresh |-> TRUE]

(* return False, False *)
Exhausted == [success |-> FALSE, needs_refresh |-> FALSE]

(* return success, needs_refresh *)
CapReturn(o) ==
    /\ pc' = "after_captcha"
    /\ captcha_success' = o.success
    /\ needs_refresh' = o.needs_refresh
    /\ UNCHANGED <<cAttempt, solverCalls, nextClicks>>

(* continue: next iteration of the for loop *)
CapContinue ==
    /\ pc' = "cap_loop"
    /\ UNCHANGED cap

CapGo(next) ==
    /\ pc' = next
    /\ UNCHANGED cap

(* the step raised no fault *)
NoFault == capFault' = "none"

(* except Exception as e: refresh if "navigation" or "timeout" is in the  *)
(* message, otherwise continue  (tcs_login.py:296-308)                     *)
CapExcept(k) ==
    /\ capFault' = k
    /\ IF k = "timeout" THEN CapReturn(RefreshNeeded) ELSE CapContinue

CapLoopCondOneMore == cAttempt <= max_retries

(* for attempt in range(1, max_retries + 1) *)
CapLoopCond == cAttempt < max_retries

(* for attempt in range(1, max_retries + 1) ... return False, False *)
handle_captcha_loop ==
    /\ Running
    /\ pc = "cap_loop"
    /\ IF CapLoopCond
       THEN /\ cAttempt' = cAttempt + 1
            /\ pc' = "cap_shot"
            /\ UNCHANGED <<captcha_success, needs_refresh, solverCalls, nextClicks>>
       ELSE CapReturn(Exhausted)
    /\ page_state' = NoPageState
    /\ helper_ret' = "unset"
    /\ selector_wait' = "unset"
    /\ NoFault
    /\ CapUnch

(* take_screenshot(page, prefix, selector): the path of a picture of the    *)
(* element, the path of a picture of the full page when the element could  *)
(* not be captured (screenshot.py:49-58), or None when that failed too     *)
ScreenshotOutcomes == {"element", "full_page", "None"}

(* tcs_login.py:232  if not captcha_screenshot *)
NoScreenshot(s) == s = "None"

(* captcha_screenshot = take_screenshot(page, 'captcha_image', selector=...) *)
handle_captcha_screenshot ==
    /\ Running
    /\ pc = "cap_shot"
    /\ \E s \in ScreenshotOutcomes :
          /\ helper_ret' = s
          /\ selector_wait' = "unset"
          /\ IF NoScreenshot(s) THEN CapContinue ELSE CapGo("cap_solve")
    /\ NoFault
    /\ UNCHANGED page_state
    /\ CapUnch

(* solve_captcha returns the cleaned text, or None (no file, empty answer,  *)
(* fault of the API)                                                       *)
SolverOutcomes == {"text", "None"}

NoCaptchaTextNever(t) == FALSE

(* tcs_login.py:240  if not captcha_text *)
NoCaptchaText(t) == t = "None"

(* True or False, as wait_for_element_safely and find_and_click_next_button *)
(* and is_visible() return it                                               *)
PyBool(b) == IF b THEN "True" ELSE "False"

(* captcha_text = solve_captcha(captcha_screenshot) *)
handle_captcha_solve ==
    /\ Running
    /\ pc = "cap_solve"
    /\ solverCalls' = solverCalls + 1
    /\ \E t \in SolverOutcomes :
          /\ helper_ret' = t
          /\ selector_wait' = "unset"
          /\ pc' = (IF NoCaptchaText(t) THEN "cap_loop" ELSE "cap_input")
    /\ NoFault
    /\ UNCHANGED <<cAttempt, captcha_success, needs_refresh, nextClicks, page_state>>
    /\ CapUnch

(* page.wait_for_selector(selector, state=state, timeout=timeout): the      *)
(* element reaches the state, the wait times out (PlaywrightTimeoutError), *)
(* or it raises another fault                                              *)
SelectorWaitOutcomes == {"reached", "timeout", "fault"}

(* the wait without its except clauses *)
wait_for_element_unguarded(w) ==
    IF w = "reached" THEN "True" ELSE "raises"

(* try: wait_for_selector; return True / except PlaywrightTimeoutError:    *)
(* warning / except Exception: error / return False  (utils.py:13-20):     *)
(* what the caller gets, "raises" standing for a fault that reaches it     *)
wait_for_element_safely(w) ==
    IF w = "reached" THEN PyBool(TRUE) ELSE PyBool(FALSE)

(* if not wait_for_element_safely(page, captcha_input_selector,            *)
(* timeout=10000): continue   (tcs_login.py:248-251)                       *)
handle_captcha_wait_input ==
    /\ Running
    /\ pc = "cap_input"
    /\ \E w \in SelectorWaitOutcomes :
          LET r == wait_for_element_safely(w)
          IN  /\ selector_wait' = w
              /\ helper_ret' = r
              /\ IF r = "True" THEN CapGo("cap_visible") /\ NoFault
                 ELSE IF r = "False" THEN CapContinue /\ NoFault
                 ELSE \E k \in FaultKinds : CapExcept(k)
    /\ UNCHANGED page_state
    /\ CapUnch

(* captcha_input.is_visible() *)
handle_captcha_visible ==
    /\ Running
    /\ pc = "cap_visible"
    /\ \/ CapGo("cap_fill") /\ NoFault /\ helper_ret' = PyBool(TRUE)
       \/ CapContinue /\ NoFault /\ helper_ret' = PyBool(FALSE)
       \/ (\E k \in FaultKinds : CapExcept(k)) /\ helper_ret' = "unset"
    /\ selector_wait' = "unset"
    /\ UNCHANGED page_state
    /\ CapUnch

(* captcha_input.fill(''); fill(captcha_text); page.wait_for_timeout(2000) *)
handle_captcha_fill ==
    /\ Running
    /\ pc = "cap_fill"
    /\ \/ CapGo("cap_next") /\ NoFault
       \/ \E k \in FaultKinds : CapExcept(k)
    /\ helper_ret' = "unset"
    /\ selector_wait' = "unset"
    /\ UNCHANGED page_state
    /\ CapUnch

(* if not find_and_click_next_button(page): continue *)
handle_captcha_next ==
    /\ Running
    /\ pc = "cap_next"
    /\ \E pg \in NextPages :
          LET r == find_and_click_next_button(pg)
          IN  /\ nextClicks' = nextClicks + r.clicks
              /\ helper_ret' = PyBool(r.ret)
              /\ selector_wait' = "unset"
              /\ pc' = (IF r.ret THEN "cap_settle" ELSE "cap_loop")
    /\ NoFault
    /\ UNCHANGED <<cAttempt, captcha_success, needs_refresh, solverCalls, page_state>>
    /\ CapUnch

(* page.wait_for_load_state('networkidle', timeout=10000): the page settles *)
(* into one of its states, or the wait raises (its time-out carries the     *)
(* word "Timeout")                                                          *)
handle_captcha_settle ==
    /\ Running
    /\ pc = "cap_settle"
    /\ \/ /\ CapGo("cap_eval")
          /\ NoFault
          /\ page_state' \in PageStates
       \/ /\ \E k \in FaultKinds : CapExcept(k)
          /\ UNCHANGED page_state
    /\ helper_ret' = "unset"
    /\ selector_wait' = "unset"
    /\ CapUnch

(* if is_on_otp_page(page): return True, False *)
handle_captcha_is_on_otp_page ==
    /\ Running
    /\ pc = "cap_eval"
    /\ IF is_on_otp_page(page_state)
       THEN CapReturn(Advanced)
       ELSE CapGo("cap_refresh")
    /\ NoFault
    /\ helper_ret' = "unset"
    /\ selector_wait' = "unset"
    /\ UNCHANGED page_state
    /\ CapUnch

(* if should_retry_with_refresh(page): return False, True; its probes are *)
(* not guarded, a fault of one reaches the except clause                  *)
handle_captcha_should_refresh ==
    /\ Running
    /\ pc = "cap_refresh"
    /\ \/ /\ IF should_retry_with_refresh(page_state)
             THEN CapReturn(RefreshNeeded)
             ELSE CapGo("cap_clear")
          /\ NoFault
       \/ \E k \in FaultKinds : CapExcept(k)
    /\ helper_ret' = "unset"
    /\ selector_wait' = "unset"
    /\ UNCHANGED page_state
    /\ CapUnch

(* clear the input if it is there and wait 2s, then the next iteration *)
handle_captcha_clear ==
    /\ Running
    /\ pc = "cap_clear"
    /\ \/ CapContinue /\ NoFault
       \/ \E k \in FaultKinds : CapExcept(k)
    /\ helper_ret' = "unset"
    /\ selector_wait' = "unset"
    /\ UNCHANGED page_state
    /\ CapUnch

CaptchaFailedNever == FALSE

(* tcs_login.py:388  if not captcha_success *)
CaptchaFailed == ~captcha_success

(* The site accepted the CAPTCHA and showed the OTP page: it has sent a code  *)
(* email for this login.                                                     *)
OtpEmailIssued ==
    /\ own_unseen' = TRUE
    /\ UNCHANGED <<stale_unseen, otp_from>>

(* The mailbox is not asked again: if nobody fetched the email of this login *)
(* it stays in the mailbox, or arrives there later, as an unseen email of    *)
(* the same sender and subject as the one the next attempt will ask for.     *)
(* One such email is kept track of; older ones are left out.                 *)
OtpEmailLeftBehind ==
    /\ stale_unseen' = (stale_unseen \/ own_unseen)
    /\ own_unseen' = FALSE
    /\ otp_from' = "none"

(* tcs_login.py:380-392: needs_refresh is tested before captcha_success *)
after_captcha ==
    /\ Running
    /\ pc = "after_captcha"
    /\ IF needs_refresh
       THEN /\ CloseAnd("continue", "none", "RefreshNeeded")
            /\ UNCHANGED <<otpv, inbox>>
       ELSE IF CaptchaFailed
       THEN /\ CloseAnd("return", "False", "Exhausted")
            /\ UNCHANGED <<otpv, inbox>>
       ELSE /\ pc' = "otp_wait_input"
            /\ otp' = NoneOtp
            /\ otpTry' = 0
            /\ typed' = <<>>
            /\ otpClicked' = FALSE
            /\ otp_result' = "unset"
            /\ enabled_wait' = "unset"
            /\ direct_click' = "unset"
            /\ scriptClicks' = 0
            /\ verdict' = "Advanced"
            /\ verdictAt' = attempt
            /\ OtpEmailIssued
            /\ UNCHANGED <<closeThen, retval>>
    \* the counts of handle_captcha are dead from here on
    /\ solverCalls' = 0
    /\ nextClicks' = 0
    /\ page_state' = NoPageState
    /\ capFault' = "none"
    /\ helper_ret' = "unset"
    /\ selector_wait' = "unset"
    /\ UNCHANGED <<impl, aux, attempt, browser, live, result, cAttempt,
                   captcha_success, needs_refresh, mailOpen, mailPolls, mailCalls,
                   email_body, mailSearches, login_status, mainv, faultSrc>>

----------------------------------------------------------------------------
(* handle_otp_process  (tcs_login.py:19-122, main.py:213-328) *)

OtpUnch == UNCHANGED <<impl, aux, capg, attempt, browser, live, result, closeThen, retval,
                       cap, login_status, mainv, ghost>>

(* return v   ("True", "False" or "None") *)
OtpReturn(v) ==
    /\ pc' = "after_otp"
    /\ otp_result' = v

(* wait_for_element_safely(page, 'input#loginOtp', timeout=20000) *)
handle_otp_wait_input ==
    /\ Running
    /\ pc = "otp_wait_input"
    /\ \/ /\ pc' = "otp_wait_enabled"
          /\ UNCHANGED otp_result
       \/ OtpReturn("False")
    /\ UNCHANGED <<otp, otpTry, typed, otpClicked, mail>>
    /\ UNCHANGED otpg
    /\ OtpUnch

(* page.wait_for_function(... !input.disabled, timeout=30000): the input is *)
(* enabled, the wait times out (PlaywrightTimeoutError), or it raises       *)
(* another fault                                                            *)
EnabledWaitOutcomes == {"enabled", "timeout", "fault"}

EnabledWaitProceedsStrict(w) == w = "enabled"

(* except PlaywrightTimeoutError: proceeding anyway; any other fault        *)
(* reaches the outer except and returns False  (tcs_login.py:41-48)         *)
EnabledWaitProceeds(w) == w \in {"enabled", "timeout"}

handle_otp_wait_enabled ==
    /\ Running
    /\ pc = "otp_wait_enabled"
    /\ \E w \in EnabledWaitOutcomes :
          /\ enabled_wait' = w
          /\ IF EnabledWaitProceeds(w)
             THEN /\ pc' = "otp_sleep"
                  /\ UNCHANGED otp_result
             ELSE OtpReturn("False")
    /\ UNCHANGED <<otp, otpTry, typed, otpClicked, direct_click, scriptClicks, mail>>
    /\ OtpUnch

(* time.sleep(20), then get_otp_from_gmail(...) is called *)
handle_otp_sleep ==
    /\ Running
    /\ pc = "otp_sleep"
    /\ pc' = "mail_connect"
    /\ otpTry' = (IF Monolith THEN 1 ELSE otpTry)
    /\ UNCHANGED <<otp, typed, otpClicked, otp_result, mail>>
    /\ UNCHANGED otpg
    /\ OtpUnch

(* get_latest_otp: max_attempts passed by handle_otp_process *)
(* tcs_login.py:61 max_attempts=2, main.py:260 max_attempts=1 *)
MailMaxAttempts == IF Modular THEN 2 ELSE 1

(* GmailOTPHandler.connect: IMAP4_SSL(...) then login(...) *)
get_otp_connect ==
    /\ Running
    /\ pc = "mail_connect"
    /\ mailCalls' = mailCalls + 1
    /\ \/ /\ pc' = "otp_validate"            \* IMAP4_SSL raised: self.mail stays None
          /\ otp' = NoneOtp
          /\ UNCHANGED <<mailOpen, mailPolls>>
       \/ /\ pc' = "mail_disconnect"         \* login raised: return None, None
          /\ otp' = NoneOtp
          /\ mailOpen' = TRUE
          /\ UNCHANGED mailPolls
       \/ /\ pc' = "mail_search"
          /\ mailOpen' = TRUE
          /\ mailPolls' = 0
          /\ UNCHANGED otp
    /\ UNCHANGED <<otpTry, typed, otpClicked, otp_result, email_body, mailSearches,
                   inbox>>
    \* the outcome of the wait is dead from here on
    /\ enabled_wait' = "unset"
    /\ UNCHANGED <<direct_click, scriptClicks>>
    /\ OtpUnch

(* self.mail.select('inbox'); self.mail.search(None, *search_criteria) *)
get_otp_search ==
    /\ Running
    /\ pc = "mail_search"
    /\ \/ /\ pc' = "mail_fetch"
          /\ mailSearches' = mailSearches + 1
          /\ UNCHANGED otp
       \/ /\ pc' = "mail_poll"
          /\ mailSearches' = mailSearches + 1
          /\ UNCHANGED otp
       \/ /\ pc' = "mail_disconnect"         \* fault of select or of search
          /\ mailSearches' \in {mailSearches, mailSearches + 1}
          /\ otp' = NoneOtp
    /\ UNCHANGED <<otpTry, typed, otpClicked, otp_result, mailOpen, mailPolls,
                   mailCalls, email_body, inbox>>
    /\ UNCHANGED otpg
    /\ OtpUnch

(* while no messages and attempt < max_attempts: sleep, search again, attempt += 1 *)
get_otp_poll ==
    /\ Running
    /\ pc = "mail_poll"
    /\ IF mailPolls < MailMaxAttempts
       THEN /\ mailSearches' = mailSearches + 1
            /\ \/ /\ pc' = "mail_fetch"
                  /\ mailPolls' = mailPolls + 1
                  /\ UNCHANGED otp
               \/ /\ pc' = "mail_poll"
                  /\ mailPolls' = mailPolls + 1
                  /\ UNCHANGED otp
               \/ /\ pc' = "mail_disconnect"   \* the search raised
                  /\ otp' = NoneOtp
                  /\ UNCHANGED mailPolls
       ELSE /\ pc' = "mail_disconnect"       \* return None, None
            /\ otp' = NoneOtp
            /\ UNCHANGED <<mailPolls, mailSearches>>
    /\ UNCHANGED <<otpTry, typed, otpClicked, otp_result, mailOpen, mailCalls,
                   email_body, inbox>>
    /\ UNCHANGED otpg
    /\ OtpUnch

(* The search criteria are UNSEEN, FROM and SUBJECT (otp_retriever.py:79-83): *)
(* nothing in them, or in the loop over the ids, tells the email of this      *)
(* login from an older one. The newest unseen match is fetched: this          *)
(* attempt's email if it has arrived, else an earlier attempt's. The mailbox  *)
(* holds no matching unseen email when the run starts; when both emails of    *)
(* this run are seen, what the search found is one that no attempt asked for. *)
UnseenSources ==
    IF own_unseen \/ stale_unseen
    THEN (IF own_unseen THEN {"own"} ELSE {}) \cup
         (IF stale_unseen THEN {"earlier"} ELSE {})
    ELSE {"other"}

(* self.mail.fetch(email_id, '(RFC822)') sets the \Seen flag of the email *)
Fetched(src) ==
    /\ own_unseen' = (own_unseen /\ src # "own")
    /\ stale_unseen' = (stale_unseen /\ src # "earlier")

(* fetch the matching emails and extract a code: (code, body) or (None, ...) *)
get_otp_fetch ==
    /\ Running
    /\ pc = "mail_fetch"
    /\ \E o \in OtpResults, src \in UnseenSources :
          /\ otp' = o
          /\ Fetched(src)
          /\ otp_from' = (IF o.some THEN src ELSE "none")
    /\ pc' = "mail_disconnect"
    /\ UNCHANGED <<otpTry, typed, otpClicked, otp_result, mailOpen, mailPolls,
                   mailCalls, email_body, mailSearches>>
    /\ UNCHANGED otpg
    /\ OtpUnch

(* finally: handler.disconnect(): close() and logout() share one try, so a  *)
(* fault of close() (imaplib refuses CLOSE unless a mailbox is selected,   *)
(* as after a failed login) is logged and logout() is not reached          *)
get_otp_disconnect ==
    /\ Running
    /\ pc = "mail_disconnect"
    /\ mailOpen' \in {FALSE, mailOpen}
    /\ mailPolls' = 0
    /\ mailSearches' = 0
    /\ pc' = "otp_validate"
    /\ UNCHANGED <<otp, otpTry, typed, otpClicked, otp_result, mailCalls,
                   email_body, inbox>>
    /\ UNCHANGED otpg
    /\ OtpUnch

(* tcs_login.py:64-67: an invalid code returns None.                       *)
(* main.py:263-273: retried up to max_attempts times, then returns False.  *)
OtpValidate(m) ==
    IF ~OtpInvalid(otp)
    THEN /\ pc' = "otp_clear"
         /\ UNCHANGED <<otpTry, otp_result>>
    ELSE IF m = "modular"
    THEN /\ OtpReturn("None")
         /\ UNCHANGED otpTry
    ELSE IF otpTry < otp_max_attempts
    THEN /\ pc' = "mail_connect"
         /\ otpTry' = otpTry + 1
         /\ UNCHANGED otp_result
    ELSE /\ OtpReturn("False")
         /\ UNCHANGED otpTry

(* if not otp or len(otp) < 4 *)
handle_otp_validate ==
    /\ Running
    /\ pc = "otp_validate"
    /\ OtpValidate(impl)
    \* the mailbox is not asked again in this cycle unless main.py retries
    /\ IF pc' = "mail_connect" THEN UNCHANGED inbox ELSE OtpEmailLeftBehind
    /\ UNCHANGED <<otp, typed, otpClicked, mailOpen, mailPolls, mailCalls, email_body,
                   mailSearches>>
    /\ UNCHANGED otpg
    /\ OtpUnch

(* otp_input.fill('') *)
handle_otp_clear ==
    /\ Running
    /\ pc = "otp_clear"
    /\ \/ /\ pc' = "otp_type"
          /\ typed' = <<>>
          /\ UNCHANGED otp_result
       \/ /\ OtpReturn("False")
          /\ UNCHANGED typed
    /\ UNCHANGED <<otp, otpTry, otpClicked, mail>>
    /\ UNCHANGED otpg
    /\ OtpUnch

NextCharFirst(t, code) == code[1]

(* for char in otp: the character typed once t has been typed *)
NextChar(t, code) == code[Len(t) + 1]

(* for char in otp: otp_input.type(char) *)
handle_otp_type ==
    /\ Running
    /\ pc = "otp_type"
    /\ IF Len(typed) < Len(otp.code)
       THEN \/ /\ typed' = Append(typed, NextChar(typed, otp.code))
               /\ pc' = "otp_type"
               /\ UNCHANGED otp_result
            \/ /\ OtpReturn("False")
               /\ UNCHANGED typed
       ELSE /\ pc' = "otp_events"
            /\ UNCHANGED <<typed, otp_result>>
    /\ UNCHANGED <<otp, otpTry, otpClicked, mail>>
    /\ UNCHANGED otpg
    /\ OtpUnch

(* page.evaluate(dispatch input and blur); time.sleep(1) *)
handle_otp_events ==
    /\ Running
    /\ pc = "otp_events"
    /\ \/ /\ pc' = "otp_btn"
          /\ UNCHANGED otp_result
       \/ OtpReturn("False")
    /\ UNCHANGED <<otp, otpTry, typed, otpClicked, mail>>
    /\ UNCHANGED otpg
    /\ OtpUnch

(* login_button.is_enabled() *)
handle_otp_is_enabled ==
    /\ Running
    /\ pc = "otp_btn"
    /\ \/ /\ pc' = "otp_click"
          /\ UNCHANGED otp_result
       \/ OtpReturn("False")                 \* still disabled, or a fault
    /\ UNCHANGED <<otp, otpTry, typed, otpClicked, mail>>
    /\ UNCHANGED otpg
    /\ OtpUnch

(* login_button.click(timeout=5000), on a fault the script click *)
handle_otp_click ==
    /\ Running
    /\ pc = "otp_click"
    /\ \/ /\ otpClicked' = TRUE              \* direct click
          /\ direct_click' = "clicked"
          /\ UNCHANGED scriptClicks
          /\ OtpReturn("True")
       \/ /\ otpClicked' \in BOOLEAN         \* script: if (btn) btn.click()
          /\ direct_click' = "failed"
          /\ scriptClicks' = scriptClicks + 1
          /\ OtpReturn("True")
       \/ /\ OtpReturn("False")              \* the script click raised
          /\ direct_click' = "failed"
          /\ scriptClicks' = scriptClicks + 1
          /\ UNCHANGED otpClicked
    /\ UNCHANGED <<otp, otpTry, typed, enabled_wait, mail>>
    /\ OtpUnch

----------------------------------------------------------------------------
(* tcs_login_and_screenshot, after the CAPTCHA cycle *)

(* tcs_login.py:396-406: None restarts, False is terminal.                 *)
(* main.py:629-632: if not handle_otp_process(page): close, return False.  *)
OtpOutcome(m) ==
    IF m = "modular" /\ otp_result = "None"
    THEN CloseAnd("continue", "none", "OtpRestart")
    ELSE IF otp_result # "True"
    THEN CloseAnd("return", "False", "OtpFail")
    ELSE /\ pc' = "classify"
         /\ verdict' = "Submitted"
         /\ verdictAt' = attempt
         /\ UNCHANGED <<closeThen, retval>>

(* otp_result = handle_otp_process(page) and the branch on it *)
after_otp ==
    /\ Running
    /\ pc = "after_otp"
    /\ OtpOutcome(impl)
    \* the locals of handle_otp_process are dead from here on; what was typed
    \* stays in the page until the session is discarded
    /\ otp' = NoneOtp
    /\ otpTry' = 0
    /\ otpClicked' = FALSE
    /\ enabled_wait' = "unset"
    /\ direct_click' = "unset"
    /\ scriptClicks' = 0
    /\ mailCalls' = 0
    /\ OtpEmailLeftBehind
    /\ UNCHANGED <<impl, aux, capg, attempt, browser, live, result, cap, typed, otp_result,
                   mailOpen, mailPolls, email_body, mailSearches, login_status, mainv,
                   faultSrc>>

LoginFailedOrUnknown(v) == v # "True"

(* tcs_login.py:410  if login_status is False *)
LoginFailed(v) == v = "False"

(* login_status = check_login_result(page): True, False or None, never raises *)
check_login_result ==
    /\ Running
    /\ pc = "classify"
    /\ \E o \in ClassifierOutcomes :
          /\ login_wait' = o.wait
          /\ login_ret' = o.res
          /\ login_status' = o.res.ret
          /\ IF LoginFailed(o.res.ret)
             THEN CloseAnd("return", "False", "LoginFail")
             ELSE /\ pc' = "scrape"
                  /\ verdict' = "LoggedIn"
                  /\ verdictAt' = attempt
                  /\ UNCHANGED <<closeThen, retval>>
    /\ UNCHANGED <<impl, btn, notif, rest, login_page, capg, attempt, browser, live, result,
                   cap, otpv, mail, mainv, faultSrc>>

(* what send_email leaves behind: whether the message went out, and its result *)
SendOutcomes ==
    {[sent |-> FALSE, ret |-> "False"],
     [sent |-> TRUE, ret |-> "True"],
     [sent |-> TRUE, ret |-> "False"]}

(* success, status = tcs_jl_status_checker(page); browser.close(); return success. *)
(* services/status_checker.py never raises; in tcs_jl_status_checker.py the       *)
(* except handler takes an unguarded screenshot, so a fault can propagate.        *)
tcs_jl_status_checker ==
    /\ Running
    /\ pc = "scrape"
    /\ \/ /\ CloseAnd("return", "True", "Scraped")   \* return True, status
          /\ \E o \in SendOutcomes :                 \* send_email(...): result dropped
                /\ sent' = o.sent
                /\ send_ret' = o.ret
          /\ UNCHANGED faultSrc
       \/ /\ CloseAnd("return", "False", "Scraped")  \* a page call raised before send_email
          /\ UNCHANGED <<sent, send_ret, faultSrc>>
       \/ /\ Monolith
          /\ RaiseToAttempt("scrape")
          /\ UNCHANGED <<sent, send_ret, closeThen, retval, verdict, verdictAt>>
    /\ login_wait' = "unset"
    /\ login_ret' = NoLoginResult
    /\ UNCHANGED <<btn, login_page, screenshots, image_path, cleanups, send_fault, rest>>
    /\ UNCHANGED <<impl, capg, attempt, browser, live, result, cap, otpv, mail,
                   login_status, mainv>>

(* if browser: browser.close()  followed by continue or return, inside the try *)
browser_close ==
    /\ Running
    /\ pc = "close"
    /\ live' = BrowserClose(live, browser)
    /\ \/ /\ closeThen = "continue"
          /\ pc' = "loop"
          /\ UNCHANGED <<result, faultSrc>>
       \/ /\ closeThen = "return"
          /\ pc' = "returned"
          /\ result' = retval
          /\ UNCHANGED faultSrc
       \/ /\ RaiseToAttempt("teardown")
          /\ UNCHANGED result
    /\ login_wait' = "unset"
    /\ login_ret' = NoLoginResult
    \* what send_email did in this attempt is kept only if the function returns here
    /\ send_ret' = (IF pc' = "returned" THEN send_ret ELSE "unset")
    /\ sent' = (pc' = "returned" /\ sent)
    /\ UNCHANGED <<btn, login_page, screenshots, image_path, cleanups, send_fault, rest>>
    /\ UNCHANGED <<impl, capg, attempt, browser, closeThen, retval, cap, otpv, mail,
                   login_status, mainv, verdict, verdictAt>>

(* except Exception as e: if browser: browser.close(); continue            *)
(* (tcs_login.py:428-432; main.py:652-656 tests 'browser' in locals())     *)
attempt_except ==
    /\ Running
    /\ pc = "except"
    /\ IF browser # 0
       THEN /\ live' = BrowserClose(live, browser)
            /\ \/ pc' = "loop"
               \/ pc' = "escaped"
       ELSE /\ pc' = "loop"
            /\ UNCHANGED live
    /\ UNCHANGED <<impl, aux, capg, attempt, browser, result, closeThen, retval, cap, otpv,
                   mail, login_status, mainv, ghost>>

----------------------------------------------------------------------------
(* main() and the watchdog  (main.py:661-734) *)

(* os._exit(1) *)
TimeoutExitCode == 1

TimeoutExitLiveUnwound(l) == {}

(* os._exit(1) runs no handler, finally clause or context-manager exit *)
TimeoutExitLive(l) == l

(* signal.signal(SIGALRM, timeout_handler); signal.alarm(SCRIPT_TIMEOUT) *)
main_arm ==
    /\ Running
    /\ pc = "main_arm"
    /\ alarm' = (SCRIPT_TIMEOUT > 0)
    /\ pc' = "main_creds"
    /\ UNCHANGED <<impl, aux, capg, attempt, browser, live, result, closeThen, retval, cap,
                   otpv, mail, login_status, proc, exitCode, exitBy, ghost>>

AlarmLeftArmed(a) == a

(* finally: signal.alarm(0) *)
AlarmCancelled(a) == FALSE

(* missing credentials: sys.exit(1); finally: signal.alarm(0) *)
main_creds ==
    /\ Running
    /\ pc = "main_creds"
    /\ \/ /\ pc' = "loop"
          /\ UNCHANGED mainv
       \/ /\ pc' = "main_done"
          /\ proc' = "exited"
          /\ exitCode' = 1
          /\ exitBy' = "main"
          /\ alarm' = AlarmCancelled(alarm)
    /\ UNCHANGED <<impl, aux, capg, attempt, browser, live, result, closeThen, retval, cap,
                   otpv, mail, login_status, ghost>>

MainExitCodeInverted(r) == IF r = "None" THEN 2 ELSE IF r = "True" THEN 1 ELSE 0

(* main.py:714-722: None exits 2, a false value exits 1, anything else 0 *)
MainExitCode(r) == IF r = "None" THEN 2 ELSE IF r = "False" THEN 1 ELSE 0

(* success = tcs_login_and_screenshot(); sys.exit(2 | 1 | 0); finally alarm(0) *)
main_exit ==
    /\ Running
    /\ Monolith
    /\ pc = "returned"
    /\ pc' = "main_done"
    /\ proc' = "exited"
    /\ exitCode' = MainExitCode(result)
    /\ exitBy' = "main"
    /\ alarm' = AlarmCancelled(alarm)
    /\ UNCHANGED <<impl, aux, capg, attempt, browser, live, result, closeThen, retval, cap,
                   otpv, mail, login_status, ghost>>

(* except Exception: sys.exit(1); finally alarm(0) *)
main_except ==
    /\ Running
    /\ Monolith
    /\ pc = "escaped"
    /\ pc' = "main_done"
    /\ proc' = "exited"
    /\ exitCode' = 1
    /\ exitBy' = "main"
    /\ alarm' = AlarmCancelled(alarm)
    /\ UNCHANGED <<impl, aux, capg, attempt, browser, live, result, closeThen, retval, cap,
                   otpv, mail, login_status, ghost>>

(* sys.exit(130) *)
InterruptExitCode == 130

(* Ctrl+C anywhere inside main()'s try: no function of main.py catches     *)
(* KeyboardInterrupt except main itself (main.py:724-726); the exception   *)
(* unwinds through  with sync_playwright() , whose exit stops the driver   *)
(* and with it the browser; finally: signal.alarm(0)                       *)
keyboard_interrupt ==
    /\ Running
    /\ Monolith
    /\ pc # "main_done"
    /\ pc' = "main_done"
    /\ proc' = "exited"
    /\ exitCode' = InterruptExitCode
    /\ exitBy' = "interrupt"
    /\ alarm' = AlarmCancelled(alarm)
    /\ live' = {}
    /\ UNCHANGED <<impl, aux, capg, attempt, browser, result, closeThen, retval, cap,
                   otpv, mail, login_status, ghost>>

(* SIGALRM: timeout_handler logs and calls os._exit(1) *)
timeout_handler ==
    /\ Running
    /\ alarm
    /\ proc' = "exited"
    /\ exitCode' = TimeoutExitCode
    /\ exitBy' = "watchdog"
    /\ live' = TimeoutExitLive(live)
    /\ UNCHANGED <<impl, aux, capg, pc, attempt, browser, result, closeThen, retval, cap,
                   otpv, mail, login_status, alarm, ghost>>

----------------------------------------------------------------------------
Next ==
    \/ sync_playwright
    \/ LoopHead
    \/ chromium_launch
    \/ new_context
    \/ page_goto
    \/ wait_login_button
    \/ click_login
    \/ wait_email_field
    \/ fill_email
    \/ handle_captcha_loop
    \/ handle_captcha_screenshot
    \/ handle_captcha_solve
    \/ handle_captcha_wait_input
    \/ handle_captcha_visible
    \/ handle_captcha_fill
    \/ handle_captcha_next
    \/ handle_captcha_settle
    \/ handle_captcha_is_on_otp_page
    \/ handle_captcha_should_refresh
    \/ handle_captcha_clear
    \/ after_captcha
    \/ handle_otp_wait_input
    \/ handle_otp_wait_enabled
    \/ handle_otp_sleep
    \/ get_otp_connect
    \/ get_otp_search
    \/ get_otp_poll
    \/ get_otp_fetch
    \/ get_otp_disconnect
    \/ handle_otp_validate
    \/ handle_otp_clear
    \/ handle_otp_type
    \/ handle_otp_events
    \/ handle_otp_is_enabled
    \/ handle_otp_click
    \/ after_otp
    \/ check_login_result
    \/ tcs_jl_status_checker
    \/ browser_close
    \/ attempt_except
    \/ main_arm
    \/ main_creds
    \/ main_exit
    \/ main_except
    \/ keyboard_interrupt
    \/ timeout_handler

Spec == Init /\ [][Next]_vars

(* Every collaborator call completes and the interpreter keeps running *)
FairSpec == Spec /\ WF_vars(Next)

----------------------------------------------------------------------------
(* Extraction runs: get_latest_otp has fetched and decoded an email and    *)
(* applies the patterns to its body.                                       *)

ExtractInit ==
    /\ impl \in Impls
    /\ pc = "otp_patterns"
    /\ email_body \in Bodies
    /\ attempt = 0
    /\ browser = 0
    /\ live = {}
    /\ result = "none"
    /\ closeThen = "none"
    /\ retval = "none"
    /\ cAttempt = 0
    /\ captcha_success = FALSE
    /\ needs_refresh = FALSE
    /\ solverCalls = 0
    /\ nextClicks = 0
    /\ page_state = NoPageState
    /\ capFault = "none"
    /\ helper_ret = "unset"
    /\ selector_wait = "unset"
    /\ next_page = NoPage
    /\ next_ret = NoResult
    /\ otp = NoneOtp
    /\ otpTry = 0
    /\ typed = <<>>
    /\ otpClicked = FALSE
    /\ otp_result = "unset"
    /\ mailOpen = TRUE
    /\ mailPolls = 0
    /\ mailCalls = 1
    /\ login_status = "unset"
    /\ proc = "running"
    /\ exitCode = -1
    /\ exitBy = "none"
    /\ alarm = FALSE
    /\ verdict = "none"
    /\ verdictAt = 0
    /\ faultSrc = "none"
    /\ login_page = NoLoginPage
    /\ login_wait = "unset"
    /\ login_ret = NoLoginResult
    /\ screenshots = {}
    /\ image_path = "None"
    /\ sent = FALSE
    /\ cleanups = 0
    /\ send_fault = "none"
    /\ send_ret = "unset"
    /\ RestIdle
    /\ enabled_wait = "unset"
    /\ direct_click = "unset"
    /\ scriptClicks = 0
    /\ mailSearches = 0
    /\ own_unseen = FALSE
    /\ stale_unseen = FALSE
    /\ otp_from = "none"

(* for pattern in otp_patterns: ... return otp_code, email_body *)
extract_otp ==
    /\ pc = "otp_patterns"
    /\ otp' = ExtractOtp(email_body, 1)
    /\ pc' = "otp_extracted"
    /\ UNCHANGED <<impl, aux, capg, attempt, browser, live, result, closeThen, retval, cap,
                   otpTry, typed, otpClicked, otp_result, otpg, mail, login_status,
                   mainv, ghost>>

ExtractNext == extract_otp

ExtractSpec == ExtractInit /\ [][ExtractNext]_vars

----------------------------------------------------------------------------
(* Helper runs: find_and_click_next_button is invoked once on a page *)

ClickInit ==
    /\ impl \in Impls
    /\ pc = "next_button"
    /\ next_page \in NextPages
    /\ next_ret = NoResult
    /\ attempt = 1
    /\ browser = 1
    /\ live = {1}
    /\ result = "none"
    /\ closeThen = "none"
    /\ retval = "none"
    /\ cAttempt = 1
    /\ captcha_success = FALSE
    /\ needs_refresh = FALSE
    /\ solverCalls = 1
    /\ nextClicks = 0
    /\ page_state = NoPageState
    /\ capFault = "none"
    /\ helper_ret = "unset"
    /\ selector_wait = "unset"
    /\ otp = NoneOtp
    /\ otpTry = 0
    /\ typed = <<>>
    /\ otpClicked = FALSE
    /\ otp_result = "unset"
    /\ mailOpen = FALSE
    /\ mailPolls = 0
    /\ mailCalls = 0
    /\ email_body = <<>>
    /\ login_status = "unset"
    /\ proc = "running"
    /\ exitCode = -1
    /\ exitBy = "none"
    /\ alarm = FALSE
    /\ verdict = "none"
    /\ verdictAt = 0
    /\ faultSrc = "none"
    /\ login_page = NoLoginPage
    /\ login_wait = "unset"
    /\ login_ret = NoLoginResult
    /\ screenshots = {}
    /\ image_path = "None"
    /\ sent = FALSE
    /\ cleanups = 0
    /\ send_fault = "none"
    /\ send_ret = "unset"
    /\ RestIdle
    /\ enabled_wait = "unset"
    /\ direct_click = "unset"
    /\ scriptClicks = 0
    /\ mailSearches = 0
    /\ own_unseen = FALSE
    /\ stale_unseen = FALSE
    /\ otp_from = "none"

(* find_and_click_next_button(page) *)
find_and_click ==
    /\ pc = "next_button"
    /\ next_ret' = find_and_click_next_button(next_page)
    /\ nextClicks' = nextClicks + next_ret'.clicks
    /\ pc' = "next_done"
    /\ UNCHANGED <<impl, cls, notif, rest, capg, next_page, attempt, browser, live, result,
                   closeThen, retval, cAttempt, captcha_success, needs_refresh,
                   solverCalls, otpv, mail, login_status, mainv, ghost>>

ClickNext == find_and_click

ClickSpec == ClickInit /\ [][ClickNext]_vars

----------------------------------------------------------------------------
(* Classifier runs: check_login_result is invoked once on a page *)

(* the variables of the orchestrator, of handle_captcha, of the OTP cycle  *)
(* and of main() while a helper is run on its own                          *)
RunIdle ==
    /\ attempt = 1
    /\ browser = 1
    /\ live = {1}
    /\ result = "none"
    /\ closeThen = "none"
    /\ retval = "none"
    /\ cAttempt = 0
    /\ captcha_success = FALSE
    /\ needs_refresh = FALSE
    /\ solverCalls = 0
    /\ nextClicks = 0
    /\ page_state = NoPageState
    /\ capFault = "none"
    /\ helper_ret = "unset"
    /\ selector_wait = "unset"
    /\ next_page = NoPage
    /\ next_ret = NoResult
    /\ otp = NoneOtp
    /\ otpTry = 0
    /\ typed = <<>>
    /\ otpClicked = FALSE
    /\ otp_result = "unset"
    /\ enabled_wait = "unset"
    /\ direct_click = "unset"
    /\ scriptClicks = 0
    /\ mailOpen = FALSE
    /\ mailPolls = 0
    /\ mailCalls = 0
    /\ mailSearches = 0
    /\ own_unseen = FALSE
    /\ stale_unseen = FALSE
    /\ otp_from = "none"
    /\ email_body = <<>>
    /\ proc = "running"
    /\ exitCode = -1
    /\ exitBy = "none"
    /\ alarm = FALSE
    /\ verdict = "none"
    /\ verdictAt = 0
    /\ faultSrc = "none"

ClassifyInit ==
    /\ impl \in Impls
    /\ pc = "check_login"
    /\ login_page \in LoginPages
    /\ login_wait = "unset"
    /\ login_ret = NoLoginResult
    /\ login_status = "unset"
    /\ screenshots = {}
    /\ image_path = "None"
    /\ sent = FALSE
    /\ cleanups = 0
    /\ send_fault = "none"
    /\ send_ret = "unset"
    /\ RestIdle
    /\ RunIdle

(* login_status = check_login_result(page) *)
classify_page ==
    /\ pc = "check_login"
    /\ login_wait' = login_page.wait
    /\ login_ret' = check_login(login_page)
    /\ login_status' = login_ret'.ret
    /\ pc' = "login_checked"
    /\ UNCHANGED <<impl, btn, notif, rest, login_page, capg, orch_locals, cap, otpv, mail,
                   mainv, ghost>>

ClassifyNext == classify_page

ClassifySpec == ClassifyInit /\ [][ClassifyNext]_vars

(* the files of the screenshots directory *)
ScreenshotFiles == {"login_error.png", "before_login_click.png", "Jl_status.png"}

SmtpOutcomes == {"ok", "raises"}

SmtpRaisesNever(o) == FALSE

(* a call on the SMTP connection that raised *)
SmtpRaises(o) == o = "raises"

SendInit ==
    /\ impl \in Impls
    /\ pc = "send_config"
    /\ screenshots \in SUBSET ScreenshotFiles
    /\ image_path \in {"None"} \cup ScreenshotFiles
    /\ sent = FALSE
    /\ cleanups = 0
    /\ send_fault = "none"
    /\ send_ret = "unset"
    /\ RestIdle
    /\ login_page = NoLoginPage
    /\ login_wait = "unset"
    /\ login_ret = NoLoginResult
    /\ login_status = "unset"
    /\ RunIdle

SendFrame ==
    UNCHANGED <<impl, btn, cls, rest, capg, orch_locals, cap, otpv, mail,
                login_status, mainv, ghost, image_path>>

(* except Exception: log and return False *)
SendCaught(at) ==
    /\ send_fault' = at
    /\ send_ret' = "False"
    /\ pc' = "send_done"

(* if not all([GMAIL_EMAIL, GMAIL_APP_PASSWORD]): return False *)
send_email_config ==
    /\ pc = "send_config"
    /\ \/ SendCaught("config")
       \/ pc' = "send_attach" /\ UNCHANGED <<send_fault, send_ret>>
    /\ UNCHANGED <<screenshots, sent, cleanups>>
    /\ SendFrame

(* if image_path and os.path.exists(image_path): read and attach the file *)
send_email_attach ==
    /\ pc = "send_attach"
    /\ \/ /\ image_path # "None" /\ image_path \in screenshots
          /\ \/ SendCaught("attach")
             \/ pc' = "smtp_connect" /\ UNCHANGED <<send_fault, send_ret>>
       \/ /\ ~(image_path # "None" /\ image_path \in screenshots)
          /\ pc' = "smtp_connect"
          /\ UNCHANGED <<send_fault, send_ret>>
    /\ UNCHANGED <<screenshots, sent, cleanups>>
    /\ SendFrame

(* with smtplib.SMTP_SSL('smtp.gmail.com', 465) as smtp *)
send_email_connect ==
    /\ pc = "smtp_connect"
    /\ \E o \in SmtpOutcomes :
          IF SmtpRaises(o)
          THEN SendCaught("connect")
          ELSE pc' = "smtp_login" /\ UNCHANGED <<send_fault, send_ret>>
    /\ UNCHANGED <<screenshots, sent, cleanups>>
    /\ SendFrame

(* smtp.login(GMAIL_EMAIL, GMAIL_APP_PASSWORD) *)
send_email_login ==
    /\ pc = "smtp_login"
    /\ \E o \in SmtpOutcomes :
          IF SmtpRaises(o)
          THEN SendCaught("login")
          ELSE pc' = "smtp_send" /\ UNCHANGED <<send_fault, send_ret>>
    /\ UNCHANGED <<screenshots, sent, cleanups>>
    /\ SendFrame

(* smtp.send_message(msg) *)
send_email_send_message ==
    /\ pc = "smtp_send"
    /\ \E o \in SmtpOutcomes :
          /\ sent' = (o = "ok")
          /\ IF SmtpRaises(o)
             THEN SendCaught("send")
             ELSE pc' = "send_cleanup" /\ UNCHANGED <<send_fault, send_ret>>
    /\ UNCHANGED <<screenshots, cleanups>>
    /\ SendFrame

(* cleanup_screenshots(): unlink every file of the directory; a file whose   *)
(* unlink fails stays, and a failure to list the directory leaves them all   *)
cleanup_screenshots ==
    /\ pc = "send_cleanup"
    /\ screenshots' \in SUBSET screenshots
    /\ cleanups' = cleanups + 1
    /\ pc' = "smtp_quit"
    /\ UNCHANGED <<sent, send_fault, send_ret>>
    /\ SendFrame

(* return True, through SMTP_SSL.__exit__ (QUIT), which may raise *)
send_email_exit ==
    /\ pc = "smtp_quit"
    /\ \E o \in SmtpOutcomes :
          IF SmtpRaises(o)
          THEN SendCaught("quit")
          ELSE /\ send_ret' = "True"
               /\ pc' = "send_done"
               /\ UNCHANGED send_fault
    /\ UNCHANGED <<screenshots, sent, cleanups>>
    /\ SendFrame

SendNext ==
    \/ send_email_config
    \/ send_email_attach
    \/ send_email_connect
    \/ send_email_login
    \/ send_email_send_message
    \/ cleanup_screenshots
    \/ send_email_exit

SendSpec == SendInit /\ [][SendNext]_vars

----------------------------------------------------------------------------
(* GmailOTPHandler.get_latest_otp, the loop over the ids found               *)
(* (otp_retriever.py:102-217)                                                *)

(* max_emails_to_process = 10 *)
max_emails_to_process == 10

MaxFound == 12

(* what fetching and reading one email can give: the fetch status or a fault *)
(* of the fetch or of the parsing, whether the From and Subject headers hold *)
(* the filter texts, and whether a pattern yields an accepted code           *)
Emails ==
    [fetch : {"OK", "NO", "raises"}, from_ok : BOOLEAN, subject_ok : BOOLEAN,
     code : BOOLEAN]

(* email_ids_to_process = email_ids[-max_emails_to_process:] *)
ToProcess(n) == IF n < max_emails_to_process THEN n ELSE max_emails_to_process

(* if status != 'OK': continue;  except Exception: continue *)
FetchFailed(e) == e.fetch # "OK"

(* the sender and subject tests of lines 126 and 142 *)
FilteredOut(e) ==
    \/ sender_given /\ ~e.from_ok
    \/ subject_given /\ ~e.subject_ok

StopsWithoutCodeNever(e) == FALSE

(* if subject_contains and subject_contains.lower() in subject.lower() *)
StopsWithoutCode(e) == subject_given /\ e.subject_ok

ScanInit ==
    /\ impl \in Impls
    /\ pc = "scan"
    /\ email_ids \in 1..MaxFound
    /\ sender_given \in BOOLEAN
    /\ subject_given \in BOOLEAN
    /\ examined = 0
    /\ email_id = 0
    /\ scan_email = NoEmail
    /\ scan_ret = "unset"
    /\ SchedIdle
    /\ login_page = NoLoginPage
    /\ login_wait = "unset"
    /\ login_ret = NoLoginResult
    /\ login_status = "unset"
    /\ screenshots = {}
    /\ image_path = "None"
    /\ sent = FALSE
    /\ cleanups = 0
    /\ send_fault = "none"
    /\ send_ret = "unset"
    /\ RunIdle

ScanFrame ==
    UNCHANGED <<impl, btn, cls, notif, capg, orch_locals, cap, otpv, mail,
                login_status, mainv, ghost, email_ids, sender_given, subject_given,
                sched>>

(* return otp_code, email_body  /  return None, email_body  /  return None, None *)
ScanReturn(v) ==
    /\ scan_ret' = v
    /\ pc' = "scan_done"

(* for email_id in reversed(email_ids_to_process): one iteration, or the     *)
(* end of the loop                                                           *)
get_latest_otp_scan ==
    /\ pc = "scan"
    /\ IF examined = ToProcess(email_ids)
       THEN /\ ScanReturn("absent")
            /\ UNCHANGED <<examined, email_id, scan_email>>
       ELSE /\ examined' = examined + 1
            /\ email_id' = email_ids - examined
            /\ \E e \in Emails :
                  /\ scan_email' = e
                  /\ IF FetchFailed(e) \/ FilteredOut(e)
                     THEN pc' = "scan" /\ UNCHANGED scan_ret
                     ELSE IF e.code
                     THEN ScanReturn("code")
                     ELSE IF StopsWithoutCode(e)
                     THEN ScanReturn("absent_with_body")
                     ELSE pc' = "scan" /\ UNCHANGED scan_ret
    /\ ScanFrame

ScanNext == get_latest_otp_scan

ScanSpec == ScanInit /\ [][ScanNext]_vars

----------------------------------------------------------------------------
(* schedule_tcs_check.py: get_next_run and the scheduling loop of main *)

(* RUN_TIMES = [dt_time(12, 0), dt_time(20, 0)], in minutes after midnight *)
RUN_TIMES == <<12 * 60, 20 * 60>>

MinuteSamples == {0, 1, 59}

(* the times of day the clock is read at *)
ClockTimes == {h * 60 + m : h \in 0..23, m \in MinuteSamples}

DaysIn(leap, month) ==
    IF month = 2 THEN (IF leap THEN 29 ELSE 28)
    ELSE IF month \in {4, 6, 9, 11} THEN 30
    ELSE 31

Dates ==
    {d \in [leap : BOOLEAN, month : 1..12, day : 1..31] : d.day <= DaysIn(d.leap, d.month)}

(* date.replace(day=n): ValueError when the month has no day n *)
ReplaceDay(d, n) ==
    IF n <= DaysIn(d.leap, d.month)
    THEN [ok |-> TRUE, date |-> [d EXCEPT !.day = n]]
    ELSE [ok |-> FALSE, date |-> NoDate]

(* for run_time in sorted(RUN_TIMES): if run_time > now: the first such index, else 0 *)
FirstLater(t) ==
    IF RUN_TIMES[1] > t THEN 1 ELSE IF RUN_TIMES[2] > t THEN 2 ELSE 0

SchedInit ==
    /\ impl \in Impls
    /\ pc = "sched_loop"
    /\ today \in Dates
    /\ now \in ClockTimes
    /\ next_run = NoRun
    /\ sched_ret = "unset"
    /\ ScanIdle
    /\ login_page = NoLoginPage
    /\ login_wait = "unset"
    /\ login_ret = NoLoginResult
    /\ login_status = "unset"
    /\ screenshots = {}
    /\ image_path = "None"
    /\ sent = FALSE
    /\ cleanups = 0
    /\ send_fault = "none"
    /\ send_ret = "unset"
    /\ RunIdle

(* next_run = get_next_run(), called by the loop of main outside its try:   *)
(* a fault of it ends the scheduler                                         *)
get_next_run ==
    /\ pc = "sched_loop"
    /\ LET i == FirstLater(now)
           tomorrow == ReplaceDay(today, today.day + 1)
       IN  IF i # 0
           THEN /\ next_run' = [date |-> today, time |-> RUN_TIMES[i]]
                /\ sched_ret' = "returned"
                /\ pc' = "sched_sleep"
           ELSE IF tomorrow.ok
           THEN /\ next_run' = [date |-> tomorrow.date, time |-> RUN_TIMES[1]]
                /\ sched_ret' = "returned"
                /\ pc' = "sched_sleep"
           ELSE /\ next_run' = NoRun
                /\ sched_ret' = "raises"
                /\ pc' = "sched_stopped"
    /\ UNCHANGED <<impl, btn, cls, notif, scan, capg, orch_locals, cap, otpv, mail,
                   login_status, mainv, ghost, today, now>>

SchedNext == get_next_run

SchedSpec == SchedInit /\ [][SchedNext]_vars

TypeOK ==
    /\ impl \in Impls
    /\ attempt \in 0..(max_login_attempts + 1)
    /\ browser \in 0..(max_login_attempts + 1)
    /\ live \subseteq 1..(max_login_attempts + 1)
    /\ result \in {"none", "True", "False"}
    /\ otp \in OtpResults
    /\ otp_result \in {"unset", "True", "False", "None"}
    /\ proc \in {"running", "exited"}

----------------------------------------------------------------------------
(* Properties *)

ReturnBranch == {"Exhausted", "OtpFail", "LoginFail", "Scraped"}

(* C1: at most one browser session is live at any moment, it is the one of  *)
(* the current attempt, and no session is live when the loop is back at its *)
(* head, when the next session is about to be launched, or when the         *)
(* function has returned.                                                   *)
C1_AtMostOneLiveSession ==
    /\ Cardinality(live) <= 1
    /\ live \subseteq {attempt}
    /\ pc \in {"loop", "sync_playwright", "launch", "returned"} => live = {}

(* a later attempt holds its own session after the earlier one was torn down *)
C1_Witness ==
    /\ attempt >= 2
    /\ live = {attempt}
    /\ pc = "otp_sleep"

C3_ExhaustedIsTerminal ==
    (Modular /\ verdict = "Exhausted")
        => /\ attempt = verdictAt
           /\ pc # "escaped"
           /\ pc = "returned" => result = "False"

(* the claim's mailbox results: code absent, empty or shorter than 4 *)
AbsentOrShort(o) == (~o.some) \/ Len(o.code) < 4

AfterValidate == {"otp_clear", "otp_type", "otp_events", "otp_btn", "otp_click", "after_otp"}

(* C4: once the mailbox result is in hand and has been validated, an absent *)
(* or short code means handle_otp_process has returned None, with nothing   *)
(* typed and the submit control not clicked.                                *)
C4_ShortOtpRestartRequired ==
    (Modular /\ mailCalls > 0 /\ pc \in AfterValidate /\ AbsentOrShort(otp))
        => /\ pc = "after_otp"
           /\ otp_result = "None"
           /\ typed = <<>>
           /\ ~otpClicked

(* a three-character code was retrieved and answered with None *)
C4_Witness ==
    /\ Modular
    /\ pc = "after_otp"
    /\ mailCalls = 1
    /\ otp.some
    /\ Len(otp.code) = 3
    /\ otp_result = "None"

(* C5: after restart-required in attempt n < max_login_attempts the run     *)
(* does not end in attempt n: the session is closed and attempt n+1 begins. *)
C5_OtpRestartBeginsNextAttempt ==
    (Modular /\ verdict = "OtpRestart" /\ verdictAt < max_login_attempts
        /\ attempt = verdictAt)
        => pc \notin {"returned", "escaped"}

(* C6: after RefreshNeeded the session is closed and a fresh attempt starts *)
(* if one remains; a run in which the last decision was RefreshNeeded ends  *)
(* only by returning False after exactly 3 attempts.                        *)
C6_RefreshConsumesAttempt ==
    (Modular /\ verdict = "RefreshNeeded")
        => /\ pc # "escaped"
           /\ pc = "returned" => (result = "False" /\ attempt = max_login_attempts)

(* C7: a missing OTP input gives False, and an ordinary OTP failure ends    *)
(* the run with failure, no further attempt being started.                  *)
C7_OtpFailureIsTerminal ==
    Modular
        => /\ (pc = "after_otp" /\ mailCalls = 0) => otp_result = "False"
           /\ verdict = "OtpFail"
                => /\ attempt = verdictAt
                   /\ pc # "escaped"
                   /\ pc = "returned" => result = "False"

(* C8: a failure verdict of the classifier ends the run with failure; after *)
(* success or indeterminate the scrape runs once and its outcome is what    *)
(* the run returns.                                                         *)
C8_ClassifierAndScrapeOutcome ==
    Modular
        => /\ verdict = "LoginFail"
                => /\ attempt = verdictAt
                   /\ pc # "escaped"
                   /\ pc = "returned" => result = "False"
           /\ verdict = "Scraped"
                => /\ attempt = verdictAt
                   /\ pc # "escaped"
                   /\ pc = "returned" => result = retval

(* C9: a fault raised in an attempt by the launch, a page interaction or a  *)
(* teardown in a branch never escapes tcs_login_and_screenshot.             *)
C9_FaultCaughtAtAttemptBoundary ==
    (Modular /\ faultSrc \in {"launch", "page", "teardown"}) => pc # "escaped"

C11_IndeterminateExitsTwo ==
    (Monolith /\ proc = "exited" /\ exitBy = "main" /\ result # "none"
        /\ login_status = "None")
        => exitCode = 2

(* C12: main() exits 0 when the run returned success, 1 when it returned    *)
(* failure, when credentials were missing (nothing was attempted) or when a *)
(* fault reached main, and 130 on user interrupt; these paths produce no    *)
(* other code.                                                              *)
C12_MainExitCodes ==
    (Monolith /\ proc = "exited")
        => /\ (exitBy = "main" /\ result = "True") => exitCode = 0
           /\ (exitBy = "main" /\ result = "False") => exitCode = 1
           /\ (exitBy = "main" /\ result = "none") => exitCode = 1
           /\ exitBy = "interrupt" => exitCode = 130
           /\ exitBy \in {"main", "interrupt"} => exitCode \in {0, 1, 130}

(* first attempt, CAPTCHA solved on its first attempt, a six-character code *)
(* typed, verdict success, scrape succeeded: exit code 0                    *)
C12_Witness ==
    /\ Monolith
    /\ proc = "exited"
    /\ exitBy = "main"
    /\ exitCode = 0
    /\ attempt = 1
    /\ cAttempt = 1
    /\ Len(typed) = 6
    /\ login_status = "True"
    /\ result = "True"

EarlyFailure == {"NavFail", "NoLoginButton", "NoEmailField"}

(* C13: when navigation fails or the login control or the email field does  *)
(* not appear, the attempt runs no CAPTCHA attempt and no mailbox call, its *)
(* session is closed, and the run goes on to the loop head: the next        *)
(* attempt, or the final False when that was the last one.                  *)
C13_EarlyFailureNextAttempt ==
    (Modular /\ verdict \in EarlyFailure /\ attempt = verdictAt)
        => /\ pc \in {"close", "except", "loop", "returned"}
           /\ cAttempt = 0
           /\ mailCalls = 0
           /\ pc \in {"loop", "returned"} => live = {}
           /\ pc = "returned" => (attempt = max_login_attempts /\ result = "False")

CaptchaPcs == {"cap_loop", "cap_shot", "cap_solve", "cap_input", "cap_visible",
               "cap_fill", "cap_next", "cap_settle", "cap_eval", "cap_refresh",
               "cap_clear", "after_captcha"}

OtpPcs == {"otp_wait_input", "otp_wait_enabled", "otp_sleep", "mail_connect",
           "mail_search", "mail_poll", "mail_fetch", "mail_disconnect",
           "otp_validate", "otp_clear", "otp_type", "otp_events", "otp_btn",
           "otp_click", "after_otp"}

(* position of a pc value in the pipeline of one session attempt; the loop *)
(* head, the teardown and the ends of the run come after every stage       *)
StageOf(p) ==
    IF p \in {"sync_playwright", "launch", "new_context", "goto",
              "wait_login", "click_login", "wait_email", "fill_email"} THEN 0
    ELSE IF p \in CaptchaPcs THEN 1
    ELSE IF p \in OtpPcs THEN 2
    ELSE IF p = "classify" THEN 3
    ELSE IF p = "scrape" THEN 4
    ELSE 5

(* C14: within one session attempt the stages are entered in pipeline       *)
(* order and never again once left: the OTP cycle is entered only from a    *)
(* CAPTCHA cycle that returned Advanced, the classifier only from an OTP    *)
(* cycle that returned submitted, the scrape only from a classifier verdict *)
(* other than failure.                                                      *)
C14_StagesStrictlyForward ==
    [][ /\ (attempt' = attempt /\ attempt > 0) => StageOf(pc') >= StageOf(pc)
        /\ (StageOf(pc) # 2 /\ StageOf(pc') = 2)
              => (pc = "after_captcha" /\ captcha_success /\ ~needs_refresh)
        /\ (StageOf(pc) # 3 /\ StageOf(pc') = 3)
              => (pc = "after_otp" /\ otp_result = "True")
        /\ (StageOf(pc) # 4 /\ StageOf(pc') = 4)
              => (pc = "classify" /\ login_status' \in {"True", "None"}) ]_vars

(* the scrape of an attempt was reached through all three earlier stages *)
C14_Witness ==
    /\ pc = "scrape"
    /\ attempt >= 2
    /\ captcha_success
    /\ otp_result = "True"
    /\ login_status = "None"

Body_OtpForLogin ==
    <<"O", "T", "P", " ", "f", "o", "r", " ", "l", "o", "g", "i", "n", ":", " ", "A", "B", "1", "2", "3", "4", "5">>

Body_CallUs1800 ==
    <<"c", "a", "l", "l", " ", "u", "s", " ", "a", "t", " ", "1", "8", "0", "0">>

Body_CallUs180 ==
    <<"c", "a", "l", "l", " ", "u", "s", " ", "a", "t", " ", "1", "8", "0">>

Code_AB12345 == <<"A", "B", "1", "2", "3", "4", "5">>

Code_1800 == <<"1", "8", "0", "0">>

(* the patterns, in list order, that have an accepted match in t *)
PatternsWithAccepted(t) ==
    {k \in 1..Len(otp_patterns) :
        \E i \in 1..Len(FindAll(otp_patterns[k], t, 1)) :
            Accepted(FindAll(otp_patterns[k], t, 1)[i])}

(* the extracted code is the first accepted match of the first pattern, in *)
(* list order, that has an accepted match; none if no pattern has one      *)
FirstAcceptedOfOrderedList ==
    pc = "otp_extracted"
        => IF PatternsWithAccepted(email_body) = {}
           THEN otp = NoneOtp
           ELSE LET k == CHOOSE j \in PatternsWithAccepted(email_body) :
                            \A h \in PatternsWithAccepted(email_body) : j <= h
                    ms == FindAll(otp_patterns[k], email_body, 1)
                    i == CHOOSE a \in 1..Len(ms) :
                            /\ Accepted(ms[a])
                            /\ \A b \in 1..(a - 1) : ~Accepted(ms[b])
                IN  otp = SomeOtp(ms[i])

(* C15 as stated: the ordered pattern list gives the first accepted match;  *)
(* "OTP for login: AB12345" gives exactly AB12345; "call us at 1800" gives  *)
(* no code.                                                                 *)
C15_PatternExtraction ==
    /\ FirstAcceptedOfOrderedList
    /\ (pc = "otp_extracted" /\ email_body = Body_OtpForLogin)
            => otp = SomeOtp(Code_AB12345)
    /\ (pc = "otp_extracted" /\ email_body = Body_CallUs1800)
            => otp = NoneOtp

(* C15 amended: as stated, except that "call us at 1800" gives the code     *)
(* 1800 (the 4-digit pattern accepts it), while "call us at 180" gives no   *)
(* code.                                                                    *)
C15_PatternExtractionAmended ==
    /\ FirstAcceptedOfOrderedList
    /\ (pc = "otp_extracted" /\ email_body = Body_OtpForLogin)
            => otp = SomeOtp(Code_AB12345)
    /\ (pc = "otp_extracted" /\ email_body = Body_CallUs1800)
            => otp = SomeOtp(Code_1800)
    /\ (pc = "otp_extracted" /\ email_body = Body_CallUs180)
            => otp = NoneOtp

(* the extraction has run on "call us at 1800" *)
C15_Witness ==
    /\ pc = "otp_extracted"
    /\ email_body = Body_CallUs1800
    /\ otp = SomeOtp(Code_1800)

(* C16: a mailbox connection is open only while a retrieval call is under   *)
(* way; once get_otp_from_gmail has returned, whatever its outcome, the     *)
(* connection it opened has been closed and logged out.                     *)
C16_MailboxClosedAfterCall ==
    mailOpen => pc \in {"mail_search", "mail_poll", "mail_fetch", "mail_disconnect"}

(* no selector and no script candidate is a visible, enabled Next control *)
NoCandidateVisible(pg) ==
    /\ \A i \in 1..NumSelectors : pg.sel[i] \in {"absent", "probe_raises"}
    /\ pg.js \in {"absent", "raises"}

StepFrom(p) == pc = p /\ proc' = "running"

(* C18: a network-idle wait that times out, and a page found blank without  *)
(* any error text, are retried in place: handle_captcha goes on to its next *)
(* attempt and does not return.                                             *)
C18_TransientRetriedInPlace ==
    [][ /\ (StepFrom("cap_settle") /\ capFault' = "timeout") => pc' = "cap_loop"
        /\ (StepFrom("cap_refresh") /\ capFault' = "none"
                /\ page_state.signals = {"blank"})
              => pc' \in {"cap_clear", "cap_loop"} ]_vars

(* C19: once the page has settled after the Next click, the OTP signal      *)
(* decides first (Advanced), then the refresh signals (RefreshNeeded), and  *)
(* with neither the input is cleared and the loop goes on to its next       *)
(* attempt; with both the OTP signal and a refresh signal the outcome is    *)
(* Advanced.  A fault raised by a probe or by the clearing is not a signal; *)
(* it is handled by the except clause.                                      *)
C19_EvaluationOrder ==
    [][ /\ (StepFrom("cap_eval") /\ page_state.on_otp)
              => (pc' = "after_captcha" /\ captcha_success' /\ ~needs_refresh')
        /\ (StepFrom("cap_eval") /\ ~page_state.on_otp)
              => pc' = "cap_refresh"
        /\ (StepFrom("cap_refresh") /\ capFault' = "none" /\ page_state.signals # {})
              => (pc' = "after_captcha" /\ ~captcha_success' /\ needs_refresh')
        /\ (StepFrom("cap_refresh") /\ capFault' = "none" /\ page_state.signals = {})
              => pc' = "cap_clear"
        /\ (StepFrom("cap_clear") /\ capFault' = "none")
              => (pc' = "cap_loop" /\ UNCHANGED <<captcha_success, needs_refresh>>)
        /\ (pc # "after_captcha" /\ pc' = "after_captcha" /\ captcha_success')
              => (pc = "cap_eval" /\ page_state.on_otp) ]_vars

(* the OTP signal and a refresh signal were both present: Advanced *)
C19_Witness ==
    /\ pc = "after_captcha"
    /\ page_state.on_otp
    /\ "expired" \in page_state.signals
    /\ captcha_success
    /\ ~needs_refresh

(* C20: one handle_captcha makes at most max_retries attempts, calls the    *)
(* solver at most once and clicks Next at most once in each of them, and    *)
(* the step that yields Advanced or RefreshNeeded is the step that returns. *)
C20_CaptchaBounded ==
    /\ [](/\ cAttempt <= max_retries
          /\ solverCalls <= cAttempt
          /\ nextClicks <= cAttempt
          /\ solverCalls <= max_retries
          /\ nextClicks <= max_retries)
    /\ [][ /\ (pc \in CaptchaPcs \ {"after_captcha"}
                   /\ (captcha_success' \/ needs_refresh'))
                 => pc' = "after_captcha"
           /\ pc = "after_captcha" => pc' \notin CaptchaPcs \ {"after_captcha"} ]_vars

(* both attempts called the solver and clicked Next, then the cycle gave up *)
C20_Witness ==
    /\ pc = "after_captcha"
    /\ cAttempt = max_retries
    /\ solverCalls = max_retries
    /\ nextClicks = max_retries
    /\ ~captcha_success
    /\ ~needs_refresh

(* C21: when the picture of the CAPTCHA's region cannot be taken in an      *)
(* attempt, handle_captcha raises nothing, does not call the solver in that *)
(* attempt and goes on to the next one; the solver is only ever given a     *)
(* picture of the region.                                                   *)
C21_NoRegionNoSolver ==
    [][ /\ (StepFrom("cap_shot") /\ helper_ret' # "element")
              => (pc' = "cap_loop" /\ capFault' = "none" /\ UNCHANGED cap)
        /\ StepFrom("cap_solve") => helper_ret = "element" ]_vars

(* the attempt is over without a fault or a return *)
AttemptFailed ==
    /\ pc' = "cap_loop"
    /\ capFault' = "none"
    /\ UNCHANGED <<cAttempt, captcha_success, needs_refresh>>

(* C22: a solver that gives no text, an answer input that does not appear   *)
(* within its wait, and a Next click that fails each end the attempt: the   *)
(* fill, the click and the evaluation are reached only through the step     *)
(* before them having succeeded, nothing is raised or returned, and the     *)
(* loop starts the next attempt when one remains.                           *)
C22_FailedStepSkipsRest ==
    [][ /\ (StepFrom("cap_solve") /\ helper_ret' = "None")
              => (AttemptFailed /\ UNCHANGED nextClicks)
        /\ (StepFrom("cap_input") /\ helper_ret' = "False")
              => (AttemptFailed /\ UNCHANGED nextClicks)
        /\ (StepFrom("cap_next") /\ helper_ret' = "False") => AttemptFailed
        /\ (pc # "cap_input" /\ pc' = "cap_input")
              => (pc = "cap_solve" /\ helper_ret' = "text")
        /\ (pc # "cap_visible" /\ pc' = "cap_visible")
              => (pc = "cap_input" /\ helper_ret' = "True")
        /\ (pc # "cap_next" /\ pc' = "cap_next") => pc = "cap_fill"
        /\ (pc # "cap_settle" /\ pc' = "cap_settle")
              => (pc = "cap_next" /\ helper_ret' = "True")
        /\ (pc # "cap_eval" /\ pc' = "cap_eval") => pc = "cap_settle"
        /\ (StepFrom("cap_loop") /\ cAttempt < max_retries)
              => (pc' = "cap_shot" /\ cAttempt' = cAttempt + 1) ]_vars

(* the first attempt ended without a click, the second one was started and  *)
(* its solver call gave no text                                             *)
C22_Witness ==
    /\ pc = "cap_loop"
    /\ cAttempt = max_retries
    /\ solverCalls = max_retries
    /\ nextClicks = 0
    /\ helper_ret = "None"

(* some character of t is not white space *)
HasContent(t) == \E k \in 1..Len(t) : ~IsSpace(t[k])

(* the error selectors of pg whose element is visible with text t such that P(t) *)
ErrorsWith(pg, P(_)) ==
    {i \in 1..NumErrorSelectors : pg.err[i].vis = "visible" /\ P(pg.err[i].text)}

SuccessVisible(pg) ==
    {j \in 1..NumSuccessIndicators : pg.ok[j].vis = "visible"}

NonEmpty(t) == t # <<>>

(* failure exactly when errs is not empty, decided by its first selector;  *)
(* otherwise success exactly when a success indicator is visible;          *)
(* otherwise indeterminate                                                 *)
VerdictFor(errs, pg) ==
    /\ login_ret.ret = "False" <=> errs # {}
    /\ errs # {} => (login_ret.by \in errs /\ \A i \in errs : login_ret.by <= i)
    /\ errs = {} => (login_ret.ret = "True" <=> SuccessVisible(pg) # {})
    /\ (errs = {} /\ SuccessVisible(pg) = {}) => login_ret.ret = "None"
    /\ login_status = login_ret.ret

(* C23 as stated (for a page whose network-idle wait has returned):        *)
(* failure if and only if some error selector, in list order, is visible   *)
(* with non-empty text, whatever the success indicators show; otherwise    *)
(* success if a success indicator is visible; otherwise indeterminate.     *)
C23_Classification ==
    (pc = "login_checked" /\ login_page.wait = "idle")
        => VerdictFor(ErrorsWith(login_page, NonEmpty), login_page)

(* C23 amended: as stated, with "non-empty text" being text that is not    *)
(* empty once surrounding white space is stripped: an error element whose  *)
(* text is empty or only white space, or whose check raises, is skipped.   *)
C23_ClassificationAmended ==
    (pc = "login_checked" /\ login_page.wait = "idle")
        => VerdictFor(ErrorsWith(login_page, HasContent), login_page)

(* a blank error element was skipped, a later one with text decided, while *)
(* nothing was made of the rest of the page                                *)
C23_Witness ==
    /\ pc = "login_checked"
    /\ login_page.wait = "idle"
    /\ login_page.err[1] = [vis |-> "visible", text |-> <<" ">>]
    /\ HasContent(login_page.err[NumErrorSelectors].text)
    /\ login_ret = [ret |-> "False", scans |-> NumErrorSelectors,
                    by |-> NumErrorSelectors]

(* C24: when the network-idle wait of check_login_result times out, the    *)
(* classifier returns indeterminate, having probed no selector and raised  *)
(* nothing, and the orchestrator goes on to the status scrape.             *)
C24_IdleTimeoutIndeterminate ==
    [][ (StepFrom("classify") /\ login_wait' = "timeout")
            => /\ login_ret'.ret = "None"
               /\ login_ret'.scans = 0
               /\ login_status' = "None"
               /\ pc' = "scrape"
               /\ UNCHANGED <<attempt, live, result>> ]_vars

(* the wait timed out and the run stands before the scrape *)
C24_Witness ==
    /\ pc = "scrape"
    /\ login_wait = "timeout"
    /\ login_ret.scans = 0
    /\ login_status = "None"
    /\ live = {attempt}

(* C25: one OTP cycle invokes the mailbox collaborator exactly once (never  *)
(* twice, and once by the time a code is validated), and that invocation    *)
(* searches the mailbox at most max_attempts times.                         *)
C25_MailboxBudget ==
    Modular
        => /\ mailCalls <= 1
           /\ pc \in (AfterValidate \ {"after_otp"}) \cup {"otp_validate"}
                 => mailCalls = 1
           /\ mailSearches <= MailMaxAttempts

(* w occurs in t, letter case aside *)
ContainsAnyCase(t, w) ==
    \E k \in 1..(Len(t) - Len(w) + 1) :
        \A j \in 1..Len(w) : ToLower(t[k + j - 1]) = ToLower(w[j])

(* at least 4 characters and none of http, www, com, tcs, gmail in it *)
Passes(m) ==
    /\ Len(m) >= 4
    /\ \A j \in 1..Len(false_positives) : ~ContainsAnyCase(m, false_positives[j])

(* the i-th match of the k-th pattern in t *)
MatchAt(t, k, i) == FindAll(otp_patterns[k], t, 1)[i]

(* pattern and match numbers of the candidates of pattern k in t that pass *)
PassingOf(t, k) ==
    LET ms == FindAll(otp_patterns[k], t, 1)
    IN  {<<k, i>> : i \in {a \in 1..Len(ms) : Passes(ms[a])}}

PassingIn(t) == UNION {PassingOf(t, k) : k \in 1..Len(otp_patterns)}

Body_TcsThenCode ==
    <<"T", "C", "S", "1", "2", "3", "4", " ", "A", "B", "1", "2", "3", "4", "5">>

(* C26: a returned code has at least 4 characters and holds none of the     *)
(* blacklisted words in any letter case; it is the first candidate that     *)
(* passes, matches of one pattern being tried in order before the next      *)
(* pattern is, and with no passing candidate nothing is returned.           *)
C26_ReturnedCodeFiltered ==
    pc = "otp_extracted"
        => LET passing == PassingIn(email_body)
           IN  /\ otp.some => Passes(otp.code)
               /\ otp.some <=> passing # {}
               /\ \A ki \in passing :
                     (\A hj \in passing :
                          ki[1] < hj[1] \/ (ki[1] = hj[1] /\ ki[2] <= hj[2]))
                         => otp.code = MatchAt(email_body, ki[1], ki[2])

(* the first match of the bare 7-character pattern holds TCS and is        *)
(* rejected; its second match is returned                                  *)
C26_Witness ==
    /\ pc = "otp_extracted"
    /\ email_body = Body_TcsThenCode
    /\ otp = SomeOtp(Code_AB12345)

(* C27: with a valid code handle_otp_process clears the field, types the    *)
(* code one character per type action in order, dispatches the events and   *)
(* only then looks at the submit control; it clicks only after finding the  *)
(* control enabled, and it returns submitted either after a direct click    *)
(* that succeeded and no script click, or after a direct click that failed  *)
(* and exactly one script click.                                            *)
C27_TypeThenSubmit ==
    [][ /\ (pc # "otp_clear" /\ pc' = "otp_clear")
              => (pc = "otp_validate" /\ ~AbsentOrShort(otp))
        /\ (pc # "otp_type" /\ pc' = "otp_type")
              => (pc = "otp_clear" /\ typed' = <<>>)
        /\ (StepFrom("otp_type") /\ pc' = "otp_type")
              => /\ Len(typed) < Len(otp.code)
                 /\ typed' = Append(typed, otp.code[Len(typed) + 1])
        /\ (pc # "otp_events" /\ pc' = "otp_events")
              => (pc = "otp_type" /\ typed = otp.code /\ typed' = typed)
        /\ (pc # "otp_btn" /\ pc' = "otp_btn") => pc = "otp_events"
        /\ (pc # "otp_click" /\ pc' = "otp_click") => pc = "otp_btn"
        /\ (otpClicked' /\ ~otpClicked) => pc = "otp_click"
        /\ (otp_result # "True" /\ otp_result' = "True")
              => /\ pc = "otp_click"
                 /\ typed = otp.code
                 /\ \/ direct_click' = "clicked" /\ scriptClicks' = 0 /\ otpClicked'
                    \/ direct_click' = "failed" /\ scriptClicks' = 1 ]_vars

(* a six-character code of two different characters was typed, the direct  *)
(* click failed and the script click was run: submitted                    *)
C27_Witness ==
    /\ pc = "after_otp"
    /\ otp_result = "True"
    /\ Len(typed) = 6
    /\ typed = otp.code
    /\ typed[1] # typed[2]
    /\ direct_click = "failed"
    /\ scriptClicks = 1

(* C28: when the wait for the OTP field to be enabled times out, the cycle  *)
(* goes on to the settle delay and from there to the mailbox call; the      *)
(* step returns nothing.                                                    *)
C28_EnabledTimeoutProceeds ==
    [][ /\ (StepFrom("otp_wait_enabled") /\ enabled_wait' = "timeout")
              => (pc' = "otp_sleep" /\ otp_result' = "unset" /\ UNCHANGED live)
        /\ StepFrom("otp_sleep") => (pc' = "mail_connect" /\ otp_result' = "unset")
        /\ (StepFrom("mail_connect") /\ enabled_wait = "timeout")
              => mailCalls' = mailCalls + 1 ]_vars

(* the wait timed out, the settle delay is over, the mailbox is called next *)
C28_Witness ==
    /\ pc = "mail_connect"
    /\ enabled_wait = "timeout"
    /\ mailCalls = 0
    /\ otp_result = "unset"

(* C29: send_email runs cleanup_screenshots when, and only when, the        *)
(* message was sent; no screenshot file is deleted at any other point; when *)
(* login or sending fails no file is deleted and send_email returns False.  *)
C29_CleanupIffSent ==
    [][ /\ (cleanups' # cleanups)
              => (pc = "send_cleanup" /\ sent /\ cleanups = 0 /\ cleanups' = 1)
        /\ (screenshots' # screenshots) => (pc = "send_cleanup" /\ sent)
        /\ (sent' /\ ~sent) => (pc = "smtp_send" /\ pc' = "send_cleanup")
        /\ (pc # "send_done" /\ pc' = "send_done")
              => /\ send_ret' \in {"True", "False"}
                 /\ cleanups' = 1 <=> sent'
                 /\ send_ret' = "True" => sent'
                 /\ send_fault' \in {"login", "send"}
                       => /\ send_ret' = "False"
                          /\ cleanups' = 0
                          /\ ~sent'
                          /\ screenshots' = screenshots ]_vars

(* the message was sent with its attachment and the directory was emptied *)
C29_Witness ==
    /\ pc = "send_done"
    /\ send_ret = "True"
    /\ sent
    /\ cleanups = 1
    /\ image_path \in ScreenshotFiles
    /\ screenshots = {}

(* C30: the two copies of the orchestrator are equivalent: from the same    *)
(* state and the same collaborator outcome, the step that handle_otp_process *)
(* takes on the code the mailbox returned, and the step that                 *)
(* tcs_login_and_screenshot takes on the result of handle_otp_process, are   *)
(* the same in main.py and in services/tcs_login.py, so that both start the  *)
(* same number of sessions and return the same result.                       *)
C30_CopiesEquivalent ==
    [][ /\ StepFrom("otp_validate")
              => (OtpValidate("modular") /\ OtpValidate("monolith"))
        /\ StepFrom("after_otp")
              => (OtpOutcome("modular") /\ OtpOutcome("monolith")) ]_vars

(* C31: a code that handle_otp_process accepts for typing into the page was *)
(* extracted from the email issued for the login of the running attempt,    *)
(* never from an email issued for an earlier attempt that stayed unseen in  *)
(* the mailbox.                                                             *)
C31_CodeOfOwnAttempt ==
    (Modular /\ pc = "otp_validate" /\ ~OtpInvalid(otp)) => otp_from = "own"

(* C32: when tcs_login_and_screenshot returns success, a result             *)
(* notification email was sent during the run; a run whose send_email       *)
(* failed does not return success. Stated for a run that returns from its   *)
(* first session attempt, where what the attempt sent is what the run sent. *)
C32_SuccessMeansNotified ==
    (pc = "returned" /\ result = "True" /\ attempt = 1)
        => sent

(* C33: handle_otp_process returns restart-required (None) only from the    *)
(* validity test on an absent or too-short code; every other way out of it, *)
(* a fault of any of its steps included, is False or True. Consequently a   *)
(* False from the OTP cycle ends the run in failure, no further session     *)
(* attempt being started.                                                   *)
C33_OtpFaultIsOrdinaryFailure ==
    [][ Modular
          => /\ (pc # "after_otp" /\ pc' = "after_otp")
                   => /\ otp_result' \in {"True", "False", "None"}
                      /\ otp_result' = "None"
                            => (pc = "otp_validate" /\ AbsentOrShort(otp))
             /\ verdict' = "OtpFail"
                   => /\ attempt' = verdictAt'
                      /\ pc' # "escaped"
                      /\ pc' = "returned" => result' = "False" ]_vars

(* C34: handle_captcha returns one of (True, False), (False, True) and      *)
(* (False, False), never (True, True); so the orchestrator, which tests     *)
(* needs_refresh first, discards no session that had advanced, and an       *)
(* advanced session goes on to the OTP cycle.                               *)
C34_ThreeCaptchaOutcomes ==
    [][ /\ (pc # "after_captcha" /\ pc' = "after_captcha")
              => /\ <<captcha_success', needs_refresh'>>
                       \in {<<TRUE, FALSE>>, <<FALSE, TRUE>>, <<FALSE, FALSE>>}
                 /\ pc \in {"cap_loop", "cap_shot", "cap_solve", "cap_input",
                            "cap_visible", "cap_fill", "cap_next", "cap_settle",
                            "cap_eval", "cap_refresh", "cap_clear"}
        /\ StepFrom("after_captcha")
              => /\ verdict' = "RefreshNeeded" => ~captcha_success
                 /\ captcha_success => (verdict' = "Advanced" /\ pc' = "otp_wait_input") ]_vars

(* the second CAPTCHA attempt of a session signalled refresh, having not advanced *)
C34_Witness ==
    /\ pc = "after_captcha"
    /\ needs_refresh
    /\ ~captcha_success
    /\ cAttempt = 2

(* the email passed the fetch and the filters, so its body was searched *)
Searched(e) == e.fetch = "OK" /\ ~FilteredOut(e)

C36_WatchdogArmedThenCancelled ==
    [][ Monolith
          => /\ (alarm' /\ ~alarm) => (pc = "main_arm" /\ pc' = "main_creds")
             /\ (pc' \notin {"main_arm", "main_done"} /\ proc' = "running") => alarm'
             /\ (proc' = "exited" /\ exitBy' # "watchdog") => ~alarm'
             /\ (exitBy' = "watchdog" /\ exitBy # "watchdog")
                   => (alarm /\ proc = "running" /\ pc \notin {"main_arm", "main_done"}) ]_vars

(* a run interrupted while a session was open has left with the alarm cancelled *)
C36_Witness ==
    /\ Monolith
    /\ proc = "exited"
    /\ exitBy = "interrupt"
    /\ attempt >= 1
    /\ ~alarm

(* the calendar day after d; the year is not kept, so 31 December is        *)
(* followed by 1 January                                                    *)
NextDay(d) ==
    IF d.day < DaysIn(d.leap, d.month) THEN [d EXCEPT !.day = d.day + 1]
    ELSE [d EXCEPT !.day = 1, !.month = IF d.month = 12 THEN 1 ELSE d.month + 1]

(* the earliest run time strictly later than the moment (d, t) *)
EarliestRunAfter(d, t) ==
    IF t < 12 * 60 THEN [date |-> d, time |-> 12 * 60]
    ELSE IF t < 20 * 60 THEN [date |-> d, time |-> 20 * 60]
    ELSE [date |-> NextDay(d), time |-> 12 * 60]

(* C37: for every date and time get_next_run returns, without raising, the  *)
(* earliest of 12:00 and 20:00 strictly later than now, today if one is     *)
(* left and on the next calendar day otherwise; the scheduling loop is not  *)
(* stopped by it.                                                           *)
C37_NextRunAlwaysComputed ==
    pc # "sched_loop"
        => /\ sched_ret # "raises"
           /\ pc # "sched_stopped"
           /\ sched_ret = "returned" => next_run = EarliestRunAfter(today, now)

(* the strategy numbered i (a selector, or the script as NumSelectors + 1) *)
(* found a visible, enabled control, clicked it and let the timer run      *)
StrategySucceeds(pg, i) ==
    IF i <= NumSelectors THEN pg.sel[i] = "clickable" ELSE pg.js = "clickable"

C39_WaitReturnsNeverRaises ==
    [][ StepFrom("cap_input")
          => /\ selector_wait' \in SelectorWaitOutcomes
             /\ helper_ret' = PyBool(selector_wait' = "reached")
             /\ capFault' = "none"
             /\ pc' = (IF selector_wait' = "reached" THEN "cap_visible" ELSE "cap_loop")
             /\ UNCHANGED cap ]_vars

(* in the second CAPTCHA attempt the wait for the answer input failed with  *)
(* a fault other than a timeout and the helper returned False               *)
C39_Witness ==
    /\ pc = "cap_loop"
    /\ cAttempt = max_retries
    /\ selector_wait = "fault"
    /\ helper_ret = "False"
    /\ capFault = "none"

====
